---- MODULE Spec2Model ----
(***************************************************************************)
(* State-machine model of the vision session manager (src/app.py): the     *)
(* registry vision_sessions, the VisionSession objects, the request        *)
(* handlers start / poll / stop / health (idle sweep), each split at the    *)
(* statements where another thread can interleave (Flask runs with          *)
(* threaded=True), and the per-session vision_monitoring_worker thread.     *)
(***************************************************************************)
EXTENDS Integers, Sequences, FiniteSets, TLC

\* ------------------------------------------------------------------ bounds
MaxObjs == 2          \* VisionSession objects created in one behaviour
MaxProduced == 6      \* results the workers build in one behaviour, requests in sequence
MaxProducedSeq == 2   \* the same, with the clock running
MaxProducedConc == 2  \* the same, with concurrent requests
MaxProducedScenes == 2 \* the same, with the camera giving any of its scenes
MaxProducedCancel == 1 \* the same, with the threads scheduled fairly
MaxProducedSweep == 1  \* the same, with the sweep running beside the requests
MaxItems == 3         \* items in a list given to create_natural_description
MaxBoxes == 2         \* boxes in a result of the detector
FrameWidth == 6       \* width of a captured frame (frame.shape[1])
FrameHeight == 4      \* height of a captured frame (frame.shape[0])
NumReq == 2           \* request-handler threads that can be in flight at once
TickStep == 300       \* seconds the clock advances in one Tick
MaxTime == 600        \* the clock stops advancing here

\* ------------------------------------------------------- program constants
\* line 39 as Queue(): no result the workers build finds the queue full
QueueMax_Unbounded == MaxProduced + 1
QueueMax == 5         \* Queue(maxsize=5)
IdleThreshold == 300  \* current_time - session.last_activity > 300

Reqs == 1..NumReq
Objs == 1..MaxObjs
ClientIds == {"s1"}                 \* session_id values a client supplies
NoId == "none"                      \* session_id missing from the request body
Languages == {"en-US", "hi-IN"}     \* language values a client supplies
None == 0                           \* no object

VARIABLES
  now,              \* time.time()
  vision_sessions,  \* the registry: a function whose DOMAIN is the dict's keys
  nobj,             \* VisionSession objects constructed so far
  sid,              \* sid[o]: session.session_id
  language,         \* language[o]: session.language
  active,           \* active[o]: session.active
  queue,            \* queue[o]: session.queue, oldest first
  last_activity,    \* last_activity[o]: session.last_activity
  wpc,              \* wpc[o]: where the worker thread of o stands
  wres,             \* wres[o]: the worker's local variable result
  produced,         \* produced[o]: results built by the worker of o
  pc,               \* pc[t]: where request thread t stands
  arg,              \* arg[t]: the request's session_id (and language, for start)
  loc,              \* loc[t]: the handler's local variable session
  sweep,            \* sweep[t]: locals of cleanup_inactive_sessions
  resp,             \* resp[t]: the response thread t returned last
  lastDelivered,    \* lastDelivered[o]: seq of the result a poll dequeued last from o
  dlg               \* the dialogue call in progress: its input and what it returned

vars == <<now, vision_sessions, nobj, sid, language, active, queue, last_activity,
          wpc, wres, produced, pc, arg, loc, sweep, resp, lastDelivered, dlg>>

sessVars == <<sid, language, active, queue, last_activity>>
workerVars == <<wpc, wres, produced>>
visionVars == <<now, vision_sessions, nobj, sid, language, active, queue, last_activity,
                wpc, wres, produced, pc, arg, loc, sweep, resp, lastDelivered>>

\* ----------------------------------------------------------------- helpers
\* str(time.time()): the identifier api_vision_start generates
TimeId(t) == "t" \o ToString(t)

\* del d[k]
DictDel(d, k) == [x \in (DOMAIN d) \ {k} |-> d[x]]

\* d[k] = v
DictSet(d, k, v) == [x \in (DOMAIN d) \cup {k} |-> IF x = k THEN v ELSE d[x]]

NoResp == [op |-> "none", id |-> NoId, obj |-> None, code |-> 0, status |-> "none",
           body |-> [error |-> "none"]]
NoSweep == [current_time |-> 0, size |-> 0, visited |-> {}, inactive |-> <<>>]
NoArg == [id |-> NoId, lang |-> "en-US", stopped |-> None]
NoCall == [op |-> "none"]
NoResult == [src |-> None, seq |-> 0, status |-> "none"]

\* jsonify(...) with a status code: the answer to request o for session_id i,
\* whose handler stopped or polled the VisionSession x (None: it touched none)
Response(o, i, x, c, s, b) ==
  [op |-> o, id |-> i, obj |-> x, code |-> c, status |-> s, body |-> b]

\* An exception that leaves the handler: Flask answers 500
Unhandled(o, i, e) == Response(o, i, None, 500, e, [error |-> "Internal error"])

Init ==
  /\ now = 0
  /\ vision_sessions = << >>
  /\ nobj = 0
  /\ sid = [o \in Objs |-> NoId]
  /\ language = [o \in Objs |-> "en-US"]
  /\ active = [o \in Objs |-> FALSE]
  /\ queue = [o \in Objs |-> << >>]
  /\ last_activity = [o \in Objs |-> 0]
  /\ wpc = [o \in Objs |-> "unborn"]
  /\ wres = [o \in Objs |-> NoResult]
  /\ produced = [o \in Objs |-> 0]
  /\ pc = [t \in Reqs |-> "idle"]
  /\ arg = [t \in Reqs |-> NoArg]
  /\ loc = [t \in Reqs |-> None]
  /\ sweep = [t \in Reqs |-> NoSweep]
  /\ resp = [t \in Reqs |-> NoResp]
  /\ lastDelivered = [o \in Objs |-> 0]
  /\ dlg = NoCall

\* A handler returns: its locals die, the response is what the client sees
Return(t, r) ==
  /\ pc' = [pc EXCEPT ![t] = "idle"]
  /\ arg' = [arg EXCEPT ![t] = NoArg]
  /\ loc' = [loc EXCEPT ![t] = None]
  /\ sweep' = [sweep EXCEPT ![t] = NoSweep]
  /\ resp' = [resp EXCEPT ![t] = r]

Goto(t, p) ==
  /\ pc' = [pc EXCEPT ![t] = p]
  /\ UNCHANGED <<arg, loc, sweep, resp>>

\* session.stop()
SessionStop(o) == active' = [active EXCEPT ![o] = FALSE]


\* -------------------------------------------------------------------- text
\* A Python str is modelled as the sequence of its characters. A word in a
\* script other than Latin is one element, written as a transliteration
\* ("hi:dhanyavad"); the danda is the element "DANDA".
Whitespace == {" ", "\n", "\t"}

UpperCase == <<"A","B","C","D","E","F","G","H","I","J","K","L","M",
               "N","O","P","Q","R","S","T","U","V","W","X","Y","Z">>
LowerCase == <<"a","b","c","d","e","f","g","h","i","j","k","l","m",
               "n","o","p","q","r","s","t","u","v","w","x","y","z">>

\* A JSON value that is no string (a number, a list): what str methods and
\* slicing raise on
NonString == <<"<not a str>">>
IsStr(x) == x # NonString

\* str.lower()
LowerChar(c) ==
  IF \E i \in 1..26 : UpperCase[i] = c
    THEN LowerCase[CHOOSE i \in 1..26 : UpperCase[i] = c]
    ELSE c

Lower(text) == [i \in 1..Len(text) |-> LowerChar(text[i])]

\* text[i:] starts with w
StartsAt(text, i, w) ==
  /\ i + Len(w) - 1 <= Len(text)
  /\ \A j \in 1..Len(w) : text[i + j - 1] = w[j]

\* w in text
Contains(text, w) == \E i \in 1..(Len(text) + 1) : StartsAt(text, i, w)

\* any(w in text for w in words)
ContainsAny(text, words) == \E w \in words : Contains(text, w)

\* str.strip()
RECURSIVE LStrip(_)
LStrip(text) ==
  IF text # << >> /\ Head(text) \in Whitespace THEN LStrip(Tail(text)) ELSE text

RECURSIVE RStrip(_)
RStrip(text) ==
  IF text # << >> /\ text[Len(text)] \in Whitespace
    THEN RStrip(SubSeq(text, 1, Len(text) - 1))
    ELSE text

Strip(text) == RStrip(LStrip(text))

\* str.replace(old, new)
RECURSIVE Replace(_, _, _)
Replace(text, old, new) ==
  IF text = << >> THEN << >>
  ELSE IF StartsAt(text, 1, old)
    THEN new \o Replace(SubSeq(text, Len(old) + 1, Len(text)), old, new)
    ELSE <<Head(text)>> \o Replace(Tail(text), old, new)

\* str.split(sep): the list of the pieces between the occurrences of sep
RECURSIVE SplitFrom(_, _, _)
SplitFrom(text, sep, piece) ==
  IF text = << >> THEN <<piece>>
  ELSE IF StartsAt(text, 1, sep)
    THEN <<piece>> \o SplitFrom(SubSeq(text, Len(sep) + 1, Len(text)), sep, << >>)
    ELSE SplitFrom(Tail(text), sep, Append(piece, Head(text)))

Split(text, sep) == SplitFrom(text, sep, << >>)

\* sep.join(parts)
RECURSIVE Join(_, _)
Join(parts, sep) ==
  IF parts = << >> THEN << >>
  ELSE IF Len(parts) = 1 THEN parts[1]
  ELSE parts[1] \o sep \o Join(Tail(parts), sep)

\* [f(x) for x in xs if p(x)] for f = strip, p = non-empty
RECURSIVE StrippedNonEmpty(_)
StrippedNonEmpty(parts) ==
  IF parts = << >> THEN << >>
  ELSE (IF Strip(Head(parts)) # << >> THEN <<Strip(Head(parts))>> ELSE << >>)
       \o StrippedNonEmpty(Tail(parts))

\* text[:n]
Prefix(xs, n) == SubSeq(xs, 1, IF Len(xs) < n THEN Len(xs) ELSE n)

\* ------------------------------------------------------------------ phi.py
MAX_RETRIES == 1      \* phi.py line 7

\* Intensities are written in hundredths: 80 is 0.8
HappyWords ==
  {<<"t", "h", "a", "n", "k">>,
   <<"t", "h", "a", "n", "k", "s">>,
   <<"g", "r", "e", "a", "t">>,
   <<"g", "o", "o", "d">>,
   <<"h", "a", "p", "p", "y">>,
   <<"g", "l", "a", "d">>,
   <<"n", "i", "c", "e">>,
   <<"hi:dhanyavad">>,
   <<"hi:accha">>,
   <<"ta:nandri">>,
   <<"te:dhanyavadalu">>,
   <<"kn:dhanyavada">>,
   <<"ml:nandi">>}
SadWords ==
  {<<"s", "o", "r", "r", "y">>,
   <<"s", "a", "d">>,
   <<"u", "n", "h", "a", "p", "p", "y">>,
   <<"hi:khed">>,
   <<"hi:dukhi">>,
   <<"ta:varuttam">>,
   <<"te:kshaminchandi">>,
   <<"te:kshaminchi">>,
   <<"te:kshamikkanam">>}
SurprisedWords ==
  {<<"w", "o", "w">>,
   <<"a", "m", "a", "z", "i", "n", "g">>,
   <<"s", "u", "r", "p", "r", "i", "s", "e">>,
   <<"hi:vah">>,
   <<"ta:accariyam">>,
   <<"te:ascharyam">>,
   <<"kn:ascharya">>,
   <<"ml:ascharyam">>}
CuriousWords ==
  {<<"w", "o", "n", "d", "e", "r">>,
   <<"c", "u", "r", "i", "o", "u", "s">>,
   <<"t", "h", "i", "n", "k">>,
   <<"?">>,
   <<"hi:jijnasa">>,
   <<"ta:arvam">>,
   <<"te:utsukata">>,
   <<"kn:kutuhala">>,
   <<"ml:kautukam">>}

Emotion(label, intensity) == [emotion |-> label, intensity |-> intensity]

\* phi.py detect_emotion_from_text
\* lines 27-35 with the sad words tested before the happy words
detect_emotion_from_text_SadFirst(text) ==
  IF text = << >> THEN Emotion("neutral", 50)
  ELSE LET t == Lower(text) IN
    IF ContainsAny(t, SadWords) THEN Emotion("sad", 70)
    ELSE IF ContainsAny(t, HappyWords) THEN Emotion("happy", 80)
    ELSE IF ContainsAny(t, SurprisedWords) THEN Emotion("surprised", 75)
    ELSE IF ContainsAny(t, CuriousWords) THEN Emotion("curious", 70)
    ELSE Emotion("neutral", 50)

\* phi.py detect_emotion_from_text, intensity in hundredths
detect_emotion_from_text(text) ==
  IF text = << >> THEN Emotion("neutral", 50)
  ELSE LET t == Lower(text) IN
    IF ContainsAny(t, HappyWords) THEN Emotion("happy", 80)
    ELSE IF ContainsAny(t, SadWords) THEN Emotion("sad", 70)
    ELSE IF ContainsAny(t, SurprisedWords) THEN Emotion("surprised", 75)
    ELSE IF ContainsAny(t, CuriousWords) THEN Emotion("curious", 70)
    ELSE Emotion("neutral", 50)

\* the keys of lang_instructions and of error_messages
PhiLangs == {"hi", "ta", "te", "kn", "ml", "en"}

\* "AI service is not available. Please contact administrator."
ServiceUnavailable ==
  <<"A", "I", " ", "s", "e", "r", "v", "i", "c", "e", " ", "i", "s", " ", "n", "o", "t", " ", "a", "v", "a", "i", "l", "a", "b", "l", "e", ".", " ", "P", "l", "e", "a", "s", "e", " ", "c", "o", "n", "t", "a", "c", "t", " ", "a", "d", "m", "i", "n", "i", "s", "t", "r", "a", "t", "o", "r", ".">>

\* error_messages of ask_phi
ApologyEn ==
  <<"S", "o", "r", "r", "y", ",", " ", "I", "'", "m", " ", "h", "a", "v", "i", "n", "g", " ", "t", "r", "o", "u", "b", "l", "e", ".", " ", "P", "l", "e", "a", "s", "e", " ", "t", "r", "y", " ", "a", "g", "a", "i", "n", ".">>
ApologyHi ==
  <<"hi:kshama", " ", "hi:karen", ",", " ", "hi:mujhe", " ", "hi:samasya", " ", "hi:ho", " ", "hi:rahi", " ", "hi:hai", "DANDA", " ", "hi:kripaya", " ", "hi:punah", " ", "hi:prayas", " ", "hi:karen", "DANDA">>
ApologyTa ==
  <<"ta:mannikkavum", ",", " ", "ta:enakku", " ", "ta:sikkal", " ", "ta:ulladu", ".", " ", "ta:mindum", " ", "ta:muyarchikkavum", ".">>
ApologyTe ==
  <<"te:kshaminchandi", ",", " ", "te:naku", " ", "te:samasya", " ", "te:undi", ".", " ", "te:malli", " ", "te:prayatninchandi", ".">>
ApologyKn ==
  <<"kn:kshamisi", ",", " ", "kn:nanage", " ", "kn:samasye", " ", "kn:ide", ".", " ", "kn:matte", " ", "kn:prayatnisi", ".">>
ApologyMl ==
  <<"ml:kshamikkanam", ",", " ", "ml:enikku", " ", "ml:prashnamundu", ".", " ", "ml:vindum", " ", "ml:shramikkuka", ".">>

error_messages ==
  [l \in PhiLangs |->
     CASE l = "hi" -> ApologyHi
       [] l = "ta" -> ApologyTa
       [] l = "te" -> ApologyTe
       [] l = "kn" -> ApologyKn
       [] l = "ml" -> ApologyMl
       [] OTHER -> ApologyEn]

\* dict.get(key, default) on a table with the keys PhiLangs
GetOr(table, key, default) == IF key \in DOMAIN table THEN table[key] ELSE default

\* What one ollama.chat call gives: an exception, or the reply text found in
\* the response (lines 92-102)
Raised == [kind |-> "raise", text |-> << >>]
Reply(text) == [kind |-> "reply", text |-> text]

\* lines 109-112: at most two sentences
LimitSentences(reply) ==
  LET sentences == StrippedNonEmpty(Split(Replace(reply, <<"DANDA", " ">>, <<".", " ">>),
                                          <<".", " ">>)) IN
  IF Len(sentences) > 2
    THEN Join(Prefix(sentences, 2), <<".", " ">>) \o <<".">>
    ELSE reply

ChatEvent(lang, message) ==
  [ev |-> "chat", system |-> IF lang \in PhiLangs THEN lang ELSE "en", user |-> message]
SleepEvent == [ev |-> "sleep", system |-> "none", user |-> << >>]

\* lines 57-128: the attempts from number attempt on; outs[attempt + 1] is what
\* the inference service gives to that attempt. The result is the returned
\* text, or returned = FALSE when the loop ends without a return, and the
\* external events in their order.
RECURSIVE AskPhiLoop(_, _, _, _)
AskPhiLoop(attempt, message, lang, outs) ==
  IF attempt > MAX_RETRIES THEN [returned |-> FALSE, ret |-> << >>, trace |-> << >>]
  ELSE
    LET out == outs[attempt + 1]
        reply == Strip(out.text)
        chat == ChatEvent(lang, message)
        \* message[:50] raises before the call when message is no str (line 59)
        called == IF IsStr(message) THEN <<chat>> ELSE << >> IN
    IF IsStr(message) /\ out.kind = "reply" /\ reply # << >>
      THEN [returned |-> TRUE, ret |-> LimitSentences(reply), trace |-> called]
      ELSE IF attempt < MAX_RETRIES
        THEN LET rest == AskPhiLoop(attempt + 1, message, lang, outs) IN
             [rest EXCEPT !.trace = called \o <<SleepEvent>> \o @]
        ELSE [returned |-> FALSE, ret |-> << >>, trace |-> called]

\* lines 131-139 with the English apology whatever the language
ask_phi_EnglishApology(available, message, lang, outs) ==
  IF ~available THEN [ret |-> ServiceUnavailable, trace |-> << >>]
  ELSE LET loop == AskPhiLoop(0, message, lang, outs) IN
       IF loop.returned
         THEN [ret |-> loop.ret, trace |-> loop.trace]
         ELSE [ret |-> ApologyEn, trace |-> loop.trace]

\* phi.py ask_phi: [ret |-> the text returned, trace |-> the external events]
ask_phi(available, message, lang, outs) ==
  IF ~available THEN [ret |-> ServiceUnavailable, trace |-> << >>]
  ELSE LET loop == AskPhiLoop(0, message, lang, outs) IN
       IF loop.returned
         THEN [ret |-> loop.ret, trace |-> loop.trace]
         ELSE [ret |-> GetOr(error_messages, lang, error_messages["en"]),
               trace |-> loop.trace]


\* What one ollama.chat call of translate_to_english / translate_from_english
\* gives. content.strip() or text, and text on any exception (lines 158-162)
PhiTranslate(text, out) ==
  IF out.kind = "reply" /\ Strip(out.text) # << >> THEN Strip(out.text) ELSE text

PhiTranslateEvent(target, text) == [ev |-> "chat", system |-> "translate to " \o target, user |-> text]

\* phi.py translate_to_english
translate_to_english(text, source_lang, out) ==
  IF source_lang = "en" THEN text ELSE PhiTranslate(text, out)

\* phi.py translate_from_english
translate_from_english(text, target_lang, out) ==
  IF target_lang = "en" THEN text ELSE PhiTranslate(text, out)

\* error_messages of ask_phi_with_emotion (lines 211-218)
TechnicalEn ==
  <<"T", "e", "c", "h", "n", "i", "c", "a", "l", " ", "d", "i", "f", "f", "i", "c", "u", "l", "t", "y", ".">>
TechnicalHi ==
  <<"hi:mujhe", " ", "hi:takniki", " ", "hi:samasya", " ", "hi:hai", "DANDA">>
TechnicalTa ==
  <<"ta:enakku", " ", "ta:tolilnutpa", " ", "ta:sikkal", " ", "ta:ulladu", ".">>
TechnicalTe ==
  <<"te:naku", " ", "te:sanketika", " ", "te:samasya", " ", "te:undi", ".">>
TechnicalKn ==
  <<"kn:nanage", " ", "kn:tantrika", " ", "kn:samasye", " ", "kn:ide", ".">>
TechnicalMl ==
  <<"ml:enikku", " ", "ml:sanketika", " ", "ml:prashnamundu", ".">>

technical_messages ==
  [l \in PhiLangs |->
     CASE l = "hi" -> TechnicalHi
       [] l = "ta" -> TechnicalTa
       [] l = "te" -> TechnicalTe
       [] l = "kn" -> TechnicalKn
       [] l = "ml" -> TechnicalMl
       [] OTHER -> TechnicalEn]

\* phi.py ask_phi_with_emotion. ext.ollama: OLLAMA_AVAILABLE; ext.toEn, ext.phi,
\* ext.fromEn: what the inference service gives to the calls made
ask_phi_with_emotion(message, lang, ext) ==
  LET english_msg == IF lang # "en" THEN translate_to_english(message, lang, ext.toEn)
                     ELSE message IN
  IF ~IsStr(english_msg)
    \* english_msg[:50] raises: the except branch
    THEN [reply |-> GetOr(technical_messages, lang, technical_messages["en"]),
          emotion |-> "neutral", intensity |-> 50, trace |-> << >>]
    ELSE
      LET asked == ask_phi(ext.ollama, english_msg, "en", ext.phi)
          reply == IF lang # "en" THEN translate_from_english(asked.ret, lang, ext.fromEn)
                   ELSE asked.ret
          e == detect_emotion_from_text(reply) IN
      [reply |-> reply, emotion |-> e.emotion, intensity |-> e.intensity,
       trace |-> (IF lang # "en" THEN <<PhiTranslateEvent("en", message)>> ELSE << >>)
                 \o asked.trace
                 \o (IF lang # "en" THEN <<PhiTranslateEvent(lang, asked.ret)>> ELSE << >>)]

\* ------------------------------------------------- app.py: translation, /phi
\* LANGUAGE_MAP.get(tag, tag)
\* lines 49-62 with every tag mapped to itself
LANGUAGE_MAP_Identity(tag) == tag

\* app.py LANGUAGE_MAP.get(tag, tag)
LANGUAGE_MAP(tag) ==
  CASE tag \in {"en-US", "en"} -> "en"
    [] tag \in {"hi-IN", "hi"} -> "hi"
    [] tag \in {"ta-IN", "ta"} -> "ta"
    [] tag \in {"te-IN", "te"} -> "te"
    [] tag \in {"kn-IN", "kn"} -> "kn"
    [] tag \in {"ml-IN", "ml"} -> "ml"
    [] OTHER -> tag

\* lines 181-182 left out: the tag is used as it came
SplitDash_Identity(tag) == tag

\* tag.split("-")[0], on the tags the model sends
SplitDash(tag) ==
  CASE tag = "en-US" -> "en"
    [] tag = "hi-IN" -> "hi"
    [] tag = "ta-IN" -> "ta"
    [] tag = "te-IN" -> "te"
    [] tag = "kn-IN" -> "kn"
    [] tag = "ml-IN" -> "ml"
    [] OTHER -> tag

\* What GoogleTranslator gives besides Raised and Reply(text): translate()
\* returning None, on which translated[:50] raises inside the try
ReturnedNone == [kind |-> "none", text |-> << >>]

TranslateEvent(src, tgt, text) == [ev |-> "translate", source |-> src, target |-> tgt, text |-> text]

\* a call of translate_text, with its arguments as the caller gave them
AdapterEvent(src, tgt, text) == [ev |-> "translate_text", source |-> src, target |-> tgt, text |-> text]

\* app.py translate_text: raised = an exception left the function; trace = the
\* call itself, then the call of GoogleTranslator when one is made
translate_text(available, text, source_lang, target_lang, out) ==
  LET call == <<AdapterEvent(source_lang, target_lang, text)>> IN
  IF ~available THEN [raised |-> FALSE, ret |-> text, trace |-> call]
  \* text.strip() on a value that is no str raises, outside the try (line 72)
  ELSE IF ~IsStr(text) THEN [raised |-> TRUE, ret |-> text, trace |-> call]
  ELSE IF text = << >> \/ Strip(text) = << >>
    THEN [raised |-> FALSE, ret |-> text, trace |-> call]
  ELSE
    LET src == LANGUAGE_MAP(source_lang)
        tgt == LANGUAGE_MAP(target_lang) IN
    IF src = tgt /\ src # "auto" THEN [raised |-> FALSE, ret |-> text, trace |-> call]
    ELSE [raised |-> FALSE,
          ret |-> IF out.kind = "reply" THEN out.text ELSE text,
          trace |-> call \o <<TranslateEvent(src, tgt, text)>>]

WaveWords ==
  {<<"h", "i">>,
   <<"h", "e", "l", "l", "o">>,
   <<"h", "e", "y">>,
   <<"hi:namaste">>,
   <<"ta:vanakkam">>,
   <<"te:namaskaram">>}
NodWords ==
  {<<"y", "e", "s">>,
   <<"y", "e", "a", "h">>,
   <<"hi:haan">>,
   <<"ta:aam">>,
   <<"te:avunu">>}
ShakeWords ==
  {<<"n", "o">>,
   <<"n", "o", "p", "e">>,
   <<"hi:nahin">>,
   <<"ta:illai">>,
   <<"te:kadu">>}
GratitudeWords ==
  {<<"t", "h", "a", "n", "k">>,
   <<"t", "h", "a", "n", "k", "s">>,
   <<"hi:dhanyavad">>,
   <<"ta:nandri">>,
   <<"te:dhanyavadalu">>}
ThinkingWords ==
  {<<"?">>,
   <<"w", "h", "a", "t">>,
   <<"h", "o", "w">>,
   <<"w", "h", "y">>,
   <<"hi:kya">>,
   <<"ta:enna">>,
   <<"te:emiti">>}

\* app.py detect_gesture, on a str
detect_gesture(text) ==
  LET lower == Lower(text) IN
  IF ContainsAny(lower, WaveWords) THEN "wave"
  ELSE IF ContainsAny(lower, NodWords) THEN "nod"
  ELSE IF ContainsAny(lower, ShakeWords) THEN "shake_head"
  ELSE IF ContainsAny(lower, GratitudeWords) THEN "gratitude"
  ELSE IF ContainsAny(lower, ThinkingWords) THEN "thinking"
  ELSE "talk"

\* "Invalid request."
InvalidRequest ==
  <<"I", "n", "v", "a", "l", "i", "d", " ", "r", "e", "q", "u", "e", "s", "t", ".">>
\* "AI module failed. Is Ollama running? (ollama serve)"
ModuleFailed ==
  <<"A", "I", " ", "m", "o", "d", "u", "l", "e", " ", "f", "a", "i", "l", "e", "d", ".", " ", "I", "s", " ", "O", "l", "l", "a", "m", "a", " ", "r", "u", "n", "n", "i", "n", "g", "?", " ", "(", "o", "l", "l", "a", "m", "a", " ", "s", "e", "r", "v", "e", ")">>
\* "Please provide a message."
ProvideMessage ==
  <<"P", "l", "e", "a", "s", "e", " ", "p", "r", "o", "v", "i", "d", "e", " ", "a", " ", "m", "e", "s", "s", "a", "g", "e", ".">>
\* f"Error: {str(e)}"
ErrorText ==
  <<"E", "r", "r", "o", "r", ":", " ", ".", ".", ".">>

PhiResponse(code, response, emotion, intensity, gesture, trace) ==
  [code |-> code, response |-> response, emotion |-> emotion,
   emotion_intensity |-> intensity, gesture |-> gesture, trace |-> trace]

\* lines 193-197 left out: the message reaches the inference untranslated and
\* translate_text is called only for the reply
phi_endpoint_NoInputTranslation(req, ext) ==
  IF ~req.json_ok
    THEN PhiResponse(400, InvalidRequest, "neutral", 50, "none", << >>)
  ELSE IF ~ext.phi_import
    THEN PhiResponse(500, ModuleFailed, "neutral", 50, "none", << >>)
  ELSE
    LET lang == SplitDash(req.language)
        original_input == req.user_input IN
    IF original_input = << >>
      THEN PhiResponse(400, ProvideMessage, "neutral", 50, "none", << >>)
    ELSE
      LET asked == ask_phi_with_emotion(original_input, "en", ext)
          tout == IF lang # "en"
                    THEN translate_text(ext.translator, asked.reply, "en", lang, ext.trOut)
                    ELSE [raised |-> FALSE, ret |-> asked.reply, trace |-> << >>] IN
      IF tout.raised \/ ~IsStr(original_input)
        THEN PhiResponse(500, ErrorText, "neutral", 50, "none", asked.trace \o tout.trace)
      ELSE PhiResponse(200, tout.ret, asked.emotion, asked.intensity,
                       detect_gesture(original_input), asked.trace \o tout.trace)

\* app.py phi_endpoint. req: the request body (json_ok: it parses; user_input:
\* the first non-empty of user_input / message / text, or ""; language). ext:
\* the collaborators (translator: TRANSLATOR_AVAILABLE; phi_import: the import
\* of phi succeeds; ollama: OLLAMA_AVAILABLE; trIn, trOut: what GoogleTranslator
\* gives to the first and to the second call; phi: what the inference service
\* gives to the attempts of ask_phi; toEn, fromEn: to the translation calls of
\* phi.py). trace: the external calls in their order.
phi_endpoint(req, ext) ==
  IF ~req.json_ok
    THEN PhiResponse(400, InvalidRequest, "neutral", 50, "none", << >>)
  ELSE IF ~ext.phi_import
    THEN PhiResponse(500, ModuleFailed, "neutral", 50, "none", << >>)
  ELSE
    LET lang == SplitDash(req.language)
        original_input == req.user_input IN
    IF original_input = << >>
      THEN PhiResponse(400, ProvideMessage, "neutral", 50, "none", << >>)
    ELSE
      LET tin == IF lang # "en"
                   THEN translate_text(ext.translator, original_input, lang, "en", ext.trIn)
                   ELSE [raised |-> FALSE, ret |-> original_input, trace |-> << >>]
          asked == ask_phi_with_emotion(tin.ret, "en", ext)
          tout == IF lang # "en"
                    THEN translate_text(ext.translator, asked.reply, "en", lang, ext.trOut)
                    ELSE [raised |-> FALSE, ret |-> asked.reply, trace |-> << >>] IN
      IF tin.raised
        THEN PhiResponse(500, ErrorText, "neutral", 50, "none", tin.trace)
      ELSE IF tout.raised
        THEN PhiResponse(500, ErrorText, "neutral", 50, "none", tin.trace \o asked.trace)
      ELSE IF ~IsStr(original_input)
        \* detect_gesture: text.lower() raises
        THEN PhiResponse(500, ErrorText, "neutral", 50, "none",
                         tin.trace \o asked.trace \o tout.trace)
      ELSE PhiResponse(200, tout.ret, asked.emotion, asked.intensity,
                       detect_gesture(original_input),
                       tin.trace \o asked.trace \o tout.trace)

\* str(e) of the exception caught at line 139
ExceptionText ==
  <<"<str(e)>">>

\* "No text provided"
NoTextProvided ==
  <<"N", "o", " ", "t", "e", "x", "t", " ", "p", "r", "o", "v", "i", "d", "e", "d">>

\* app.py api_translate. req: the request body (json_ok: it parses; text,
\* source, target: the values read, the defaults "", "auto", "en" when the key
\* is absent). ext: TRANSLATOR_AVAILABLE and what GoogleTranslator gives.
\* get_json raises inside the try of line 122, so a body that does not parse
\* ends in the except of line 139.
api_translate(req, ext) ==
  IF ~req.json_ok
    THEN [code |-> 500, body |-> [error |-> ExceptionText], trace |-> << >>]
  ELSE IF req.text = << >>
    THEN [code |-> 400, body |-> [error |-> NoTextProvided], trace |-> << >>]
  ELSE
    LET t == translate_text(ext.translator, req.text, req.source, req.target, ext.out) IN
    IF t.raised
      THEN [code |-> 500, body |-> [error |-> ExceptionText], trace |-> t.trace]
      ELSE [code |-> 200,
            body |-> [translated_text |-> t.ret, source_lang |-> req.source,
                      target_lang |-> req.target],
            trace |-> t.trace]

\* --------------------------------------------------------------- vision.py
\* LANGUAGE_PHRASES (lines 38-93)
LANGUAGE_PHRASES ==
  [
  en |->
     [clear |-> <<"P", "a", "t", "h", " ", "i", "s", " ", "c", "l", "e", "a", "r", ".">>,
      see |-> <<"I", " ", "s", "e", "e">>,
      ahead |-> <<"a", "h", "e", "a", "d">>,
      left |-> <<"o", "n", " ", "y", "o", "u", "r", " ", "l", "e", "f", "t">>,
      right |-> <<"o", "n", " ", "y", "o", "u", "r", " ", "r", "i", "g", "h", "t">>,
      close |-> <<"v", "e", "r", "y", " ", "c", "l", "o", "s", "e">>,
      far |-> <<"f", "a", "r">>],
  hi |->
     [clear |-> <<"hi:rasta", " ", "hi:saf", " ", "hi:hai", "DANDA">>,
      see |-> <<"hi:mujhe", " ", "hi:dikh", " ", "hi:raha", " ", "hi:hai">>,
      ahead |-> <<"hi:samne">>,
      left |-> <<"hi:bayin", " ", "hi:or">>,
      right |-> <<"hi:dayin", " ", "hi:or">>,
      close |-> <<"hi:bahut", " ", "hi:najdik">>,
      far |-> <<"hi:dur">>],
  ta |->
     [clear |-> <<"ta:padai", " ", "ta:telivaga", " ", "ta:ulladu", ".">>,
      see |-> <<"ta:nan", " ", "ta:parkkiren">>,
      ahead |-> <<"ta:munnal">>,
      left |-> <<"ta:idadupuram">>,
      right |-> <<"ta:valadupuram">>,
      close |-> <<"ta:miga", " ", "ta:nerukkamaga">>,
      far |-> <<"ta:duram">>],
  te |->
     [clear |-> <<"te:dari", " ", "te:kliyar", " ", "te:ga", " ", "te:undi", ".">>,
      see |-> <<"te:naku", " ", "te:kanipistondi">>,
      ahead |-> <<"te:mundu">>,
      left |-> <<"te:edamavaipu">>,
      right |-> <<"te:kudivaipu">>,
      close |-> <<"te:chala", " ", "te:daggaraga">>,
      far |-> <<"te:duranga">>],
  kn |->
     [clear |-> <<"kn:dari", " ", "kn:spashtavagide", ".">>,
      see |-> <<"kn:nanu", " ", "kn:noduttiddene">>,
      ahead |-> <<"kn:munde">>,
      left |-> <<"kn:edakke">>,
      right |-> <<"kn:balakke">>,
      close |-> <<"kn:tumba", " ", "kn:hattira">>,
      far |-> <<"kn:dura">>],
  ml |->
     [clear |-> <<"ml:vazhi", " ", "ml:vyaktamanu", ".">>,
      see |-> <<"ml:njan", " ", "ml:kanunnu">>,
      ahead |-> <<"ml:munnil">>,
      left |-> <<"ml:idatuvasattu">>,
      right |-> <<"ml:valatuvasattu">>,
      close |-> <<"ml:valare", " ", "ml:aduttu">>,
      far |-> <<"ml:dure">>]]

PhraseKeys == {"clear", "see", "ahead", "left", "right", "close", "far"}

\* the characters of a dictionary key
KeyText(k) ==
  CASE k = "left" -> <<"l", "e", "f", "t">>
    [] k = "ahead" -> <<"a", "h", "e", "a", "d">>
    [] k = "right" -> <<"r", "i", "g", "h", "t">>
    [] k = "close" -> <<"c", "l", "o", "s", "e">>
    [] k = "far" -> <<"f", "a", "r">>

\* LANGUAGE_PHRASES.get(lang, LANGUAGE_PHRASES["en"])
PhrasesFor(lang) ==
  IF lang \in DOMAIN LANGUAGE_PHRASES THEN LANGUAGE_PHRASES[lang] ELSE LANGUAGE_PHRASES["en"]

\* phrases.get(key, key)
PhraseOr(phrases, k) == IF k \in DOMAIN phrases THEN phrases[k] ELSE KeyText(k)

Person == <<"p", "e", "r", "s", "o", "n">>
Car == <<"c", "a", "r">>
Truck == <<"t", "r", "u", "c", "k">>
Dog == <<"d", "o", "g">>
Chair == <<"c", "h", "a", "i", "r">>
Cup == <<"c", "u", "p">>

\* priority.get(label, 3), line 236
Priority(label) ==
  CASE label = Person -> 10
    [] label = Car -> 8
    [] label = Truck -> 8
    [] label = Dog -> 7
    [] label = Chair -> 6
    [] OTHER -> 3

\* the sort key of line 237 compared: (priority, -size_ratio)
KeyLess(a, b) ==
  \/ Priority(a.label) < Priority(b.label)
  \/ Priority(a.label) = Priority(b.label) /\ (0 - a.size_ratio) < (0 - b.size_ratio)

\* sorted(items, key=..., reverse=True): descending, equal keys keep their order
RECURSIVE InsertDesc(_, _)
InsertDesc(sorted, x) ==
  IF sorted = << >> THEN <<x>>
  ELSE IF KeyLess(Head(sorted), x) THEN <<x>> \o sorted
  ELSE <<Head(sorted)>> \o InsertDesc(Tail(sorted), x)

RECURSIVE SortedDesc(_)
SortedDesc(items) ==
  IF items = << >> THEN << >>
  ELSE InsertDesc(SortedDesc(SubSeq(items, 1, Len(items) - 1)), items[Len(items)])

\* lines 239-251: the loop over items_sorted[:2]; the result is the pair of
\* descriptions and seen
RECURSIVE Describe(_, _, _, _)
Describe(items, phrases, descriptions, seen) ==
  IF items = << >> THEN descriptions
  ELSE LET item == Head(items) IN
    IF item.label \in seen THEN Describe(Tail(items), phrases, descriptions, seen)
    ELSE Describe(Tail(items), phrases,
                  Append(descriptions, item.label \o <<" ">> \o PhraseOr(phrases, item.direction)),
                  seen \cup {item.label})

\* vision.py create_natural_description
create_natural_description(items, lang) ==
  IF items = << >> THEN PhrasesFor(lang).clear
  ELSE
    LET phrases == PhrasesFor(lang)
        items_sorted == SortedDesc(items)
        descriptions == Describe(Prefix(items_sorted, 2), phrases, << >>, {}) IN
    IF descriptions = << >> THEN phrases.clear
    ELSE phrases.see \o <<" ">> \o Join(descriptions, <<",", " ">>) \o <<".">>

\* ------------------------------------------------ vision_monitoring_worker
\* 'Path clear.' (line 405)
PathClear ==
  <<"P", "a", "t", "h", " ", "c", "l", "e", "a", "r", ".">>
\* "Describe this scene: " (line 421)
DescribeThisScene ==
  <<"D", "e", "s", "c", "r", "i", "b", "e", " ", "t", "h", "i", "s", " ", "s", "c", "e", "n", "e", ":", " ">>

\* round(confidence, 2), confidence in thousandths, the result in hundredths
Round2(c) ==
  LET q == c \div 10
      r == c % 10 IN
  IF r > 5 \/ (r = 5 /\ q % 2 = 1) THEN q + 1 ELSE q

\* lines 411-418
DetectionEntry(item) ==
  [label |-> item.label,
   confidence |-> Round2(item.confidence),
   position |-> KeyText(item.direction) \o <<" ", "-", " ">> \o KeyText(item.distance)]

DetectionsList(items) == [i \in 1..Len(Prefix(items, 5)) |-> DetectionEntry(items[i])]

\* lines 390-434: the result dict of one cycle. scene: what
\* detect_objects_from_camera returns (items, error; error = "" for None) and
\* what the inference service gives to ask_phi (ollama, phi). src and seq are
\* the identity of the dict: the session whose worker built it and its number
\* among the results of that worker.
BuildResult(o, scene) ==
  IF scene.error # << >>
    THEN [src |-> o, seq |-> produced[o] + 1, status |-> "error", timestamp |-> now,
          response |-> scene.error, detections |-> << >>, objects_count |-> 0,
          emotion |-> "neutral"]
  ELSE IF scene.items = << >>
    THEN [src |-> o, seq |-> produced[o] + 1, status |-> "clear", timestamp |-> now,
          response |-> PathClear, detections |-> << >>, objects_count |-> 0,
          emotion |-> "happy"]
  ELSE
    LET detections_list == DetectionsList(scene.items)
        description == create_natural_description(scene.items, "en")
        prompt == DescribeThisScene \o description
        response_text == ask_phi(scene.ollama, prompt, "en", scene.phi).ret
        e == detect_emotion_from_text(response_text) IN
    [src |-> o, seq |-> produced[o] + 1, status |-> "detection", timestamp |-> now,
     response |-> response_text, detections |-> detections_list,
     objects_count |-> Len(detections_list),
     emotion |-> e.emotion, emotion_intensity |-> e.intensity]

\* ------------------------------------------------ vision_assistant_cycle
\* the word lists of vision.py detect_emotion_from_text (lines 133-138)
VisionPersonWords ==
  {<<"p", "e", "r", "s", "o", "n">>,
   <<"p", "e", "o", "p", "l", "e">>,
   <<"s", "o", "m", "e", "o", "n", "e">>,
   <<"hi:vyakti">>,
   <<"ta:napar">>,
   <<"te:vyakti">>,
   <<"kn:vyakti">>,
   <<"ml:vyakti">>}
VisionClearWords ==
  {<<"c", "l", "e", "a", "r">>,
   <<"s", "a", "f", "e">>,
   <<"n", "o", "t", "h", "i", "n", "g">>,
   <<"hi:saf">>,
   <<"ta:telivu">>,
   <<"te:kliyar">>,
   <<"kn:spashta">>,
   <<"ml:vyaktam">>}
VisionObstacleWords ==
  {<<"o", "b", "s", "t", "a", "c", "l", "e">>,
   <<"c", "a", "r", "e", "f", "u", "l">>,
   <<"w", "a", "t", "c", "h">>,
   <<"hi:savdhan">>,
   <<"ta:kavanam">>,
   <<"te:jagratta">>,
   <<"kn:jagaruka">>,
   <<"ml:shraddha">>}

\* vision.py detect_emotion_from_text, intensity in hundredths
vision_detect_emotion_from_text(text) ==
  LET t == Lower(text) IN
  IF ContainsAny(t, VisionPersonWords) THEN Emotion("curious", 75)
  ELSE IF ContainsAny(t, VisionClearWords) THEN Emotion("happy", 60)
  ELSE IF ContainsAny(t, VisionObstacleWords) THEN Emotion("surprised", 80)
  ELSE Emotion("neutral", 60)

\* "Image analyzed."
ImageAnalyzed ==
  <<"I", "m", "a", "g", "e", " ", "a", "n", "a", "l", "y", "z", "e", "d", ".">>

\* lines 323-330: one entry of detections_list, with the phrases of the language
CycleDetectionEntry(item, phrases) ==
  [label |-> item.label,
   confidence |-> Round2(item.confidence),
   position |-> PhraseOr(phrases, item.direction) \o <<" ", "-", " ">>
                \o PhraseOr(phrases, item.distance)]

\* vision.py vision_assistant_cycle. payload: language, the first non-empty of
\* user_input / message / text (a str, "" when absent) and whether image_data
\* is given. scene: what detect_objects_from_camera returns and what the
\* inference service gives to ask_phi of phi.py (imported at line 284).
\* Nothing raises inside the try on these inputs, so the except branch of
\* line 346 is not taken.
vision_assistant_cycle(payload, scene) ==
  LET lang_code == SplitDash(payload.language)
      user_input == Strip(payload.user_input)
      phrases == PhrasesFor(lang_code) IN
  IF payload.image_data
    THEN [response |-> ImageAnalyzed, emotion |-> "curious", emotion_intensity |-> 70,
          source |-> "image_analysis"]
  ELSE IF user_input # << >>
    THEN LET reply == ask_phi(scene.ollama, user_input, lang_code, scene.phi).ret
             e == vision_detect_emotion_from_text(reply) IN
         [response |-> reply, emotion |-> e.emotion, emotion_intensity |-> e.intensity,
          source |-> "phi_chat"]
  ELSE IF scene.error # << >>
    THEN [response |-> scene.error, emotion |-> "neutral", emotion_intensity |-> 50,
          source |-> "vision_error", detections |-> << >>]
  ELSE IF scene.items = << >>
    THEN [response |-> phrases.clear, emotion |-> "happy", emotion_intensity |-> 60,
          source |-> "vision_empty", detections |-> << >>, objects_count |-> 0]
  ELSE
    LET shown == Prefix(scene.items, 5)
        detections_list == [i \in 1..Len(shown) |-> CycleDetectionEntry(shown[i], phrases)]
        description == create_natural_description(scene.items, lang_code)
        e == vision_detect_emotion_from_text(description) IN
    [response |-> description, emotion |-> e.emotion, emotion_intensity |-> e.intensity,
     source |-> "vision_detection", detections |-> detections_list,
     objects_count |-> Len(detections_list)]

\* ------------------------------------------------- what the model feeds in
\* a detected item: confidence in thousandths, size_ratio in hundredths
PersonAhead ==
  [label |-> Person, direction |-> "ahead", confidence |-> 874, distance |-> "far",
   size_ratio |-> 20]

\* "Camera not accessible" (vision.py line 168)
CameraNotAccessible ==
  <<"C", "a", "m", "e", "r", "a", " ", "n", "o", "t", " ", "a", "c", "c", "e", "s", "s", "i", "b", "l", "e">>
\* a reply of the inference service: "I see a person."
ISeeAPerson ==
  <<"I", " ", "s", "e", "e", " ", "a", " ", "p", "e", "r", "s", "o", "n", ".">>
\* a translation into Hindi GoogleTranslator gives
TranslatedHi ==
  <<"hi:anuvad">>

SceneError == [items |-> << >>, error |-> CameraNotAccessible, ollama |-> TRUE, phi |-> <<Raised, Raised>>]
SceneClear == [items |-> << >>, error |-> << >>, ollama |-> TRUE, phi |-> <<Raised, Raised>>]
SceneDetection == [items |-> <<PersonAhead>>, error |-> << >>, ollama |-> TRUE, phi |-> <<Reply(ISeeAPerson), Raised>>]

\* what the camera and the inference service give to one worker cycle
Scenes == {SceneError, SceneClear, SceneDetection}

\* TRANSLATOR_AVAILABLE and what GoogleTranslator gives to the call of a poll
Translators == {[available |-> TRUE, out |-> Reply(TranslatedHi)],
                [available |-> TRUE, out |-> Raised]}

\* ------------------------------------------------- POST /api/vision/start
\* Starts whose VisionSession is not constructed yet
StartsInFlight == Cardinality({t \in Reqs : pc[t] \in {"start_stop", "start_del", "start_new"}})

\* lines 309-315: read the body, choose the identifier, test membership
BeginStart(t, id, lang) ==
  /\ pc[t] = "idle"
  /\ nobj + StartsInFlight < MaxObjs
  /\ LET session_id == IF id = NoId THEN TimeId(now) ELSE id IN
       /\ arg' = [arg EXCEPT ![t] = [id |-> session_id, lang |-> lang, stopped |-> None]]
       /\ pc' = [pc EXCEPT ![t] =
                   IF session_id \in DOMAIN vision_sessions THEN "start_stop" ELSE "start_new"]
  /\ UNCHANGED <<now, vision_sessions, nobj, sessVars, workerVars, loc, sweep, resp,
                 lastDelivered>>

\* line 316 left out: the session found registered is dropped still active
StartStop_NoStop(t) ==
  /\ pc[t] = "start_stop"
  /\ IF arg[t].id \in DOMAIN vision_sessions
       THEN /\ arg' = [arg EXCEPT ![t].stopped = vision_sessions[arg[t].id]]
            /\ pc' = [pc EXCEPT ![t] = "start_del"]
            /\ UNCHANGED <<loc, sweep, resp>>
       ELSE Return(t, Unhandled("start", arg[t].id, "KeyError"))
  /\ UNCHANGED <<now, vision_sessions, nobj, sessVars, workerVars, lastDelivered>>

\* line 316: vision_sessions[session_id].stop()
StartStop(t) ==
  /\ pc[t] = "start_stop"
  /\ IF arg[t].id \in DOMAIN vision_sessions
       THEN /\ SessionStop(vision_sessions[arg[t].id])
            /\ arg' = [arg EXCEPT ![t].stopped = vision_sessions[arg[t].id]]
            /\ pc' = [pc EXCEPT ![t] = "start_del"]
            /\ UNCHANGED <<loc, sweep, resp>>
       ELSE /\ Return(t, Unhandled("start", arg[t].id, "KeyError"))
            /\ UNCHANGED active
  /\ UNCHANGED <<now, vision_sessions, nobj, sid, language, queue, last_activity,
                 workerVars, lastDelivered>>

\* line 317: del vision_sessions[session_id]
StartDel(t) ==
  /\ pc[t] = "start_del"
  /\ IF arg[t].id \in DOMAIN vision_sessions
       THEN /\ vision_sessions' = DictDel(vision_sessions, arg[t].id)
            /\ Goto(t, "start_new")
       ELSE /\ Return(t, Unhandled("start", arg[t].id, "KeyError"))
            /\ UNCHANGED vision_sessions
  /\ UNCHANGED <<now, nobj, sessVars, workerVars, lastDelivered>>

\* lines 319-320 with the session stopped at line 316 switched on again and
\* registered in place of a new one
StartNew_Reuse(t) ==
  /\ pc[t] = "start_new"
  /\ LET o == IF arg[t].stopped # None THEN arg[t].stopped ELSE nobj + 1 IN
       /\ nobj' = IF arg[t].stopped # None THEN nobj ELSE o
       /\ sid' = [sid EXCEPT ![o] = arg[t].id]
       /\ language' = [language EXCEPT ![o] = arg[t].lang]
       /\ active' = [active EXCEPT ![o] = TRUE]
       /\ queue' = [queue EXCEPT ![o] = << >>]
       /\ last_activity' = [last_activity EXCEPT ![o] = now]
       /\ vision_sessions' = DictSet(vision_sessions, arg[t].id, o)
       /\ loc' = [loc EXCEPT ![t] = o]
  /\ pc' = [pc EXCEPT ![t] = "start_spawn"]
  /\ UNCHANGED <<now, workerVars, arg, sweep, resp, lastDelivered>>

\* lines 319-320: session = VisionSession(session_id, language); register it
StartNew(t) ==
  /\ pc[t] = "start_new"
  /\ LET o == nobj + 1 IN
       /\ nobj' = o
       /\ sid' = [sid EXCEPT ![o] = arg[t].id]
       /\ language' = [language EXCEPT ![o] = arg[t].lang]
       /\ active' = [active EXCEPT ![o] = TRUE]
       /\ queue' = [queue EXCEPT ![o] = << >>]
       /\ last_activity' = [last_activity EXCEPT ![o] = now]
       /\ vision_sessions' = DictSet(vision_sessions, arg[t].id, o)
       /\ loc' = [loc EXCEPT ![t] = o]
  /\ pc' = [pc EXCEPT ![t] = "start_spawn"]
  /\ UNCHANGED <<now, workerVars, arg, sweep, resp, lastDelivered>>

\* lines 322-334: thread.start(), then the response
StartSpawn(t) ==
  /\ pc[t] = "start_spawn"
  /\ wpc' = [wpc EXCEPT ![loc[t]] = "while"]
  /\ Return(t, Response("start", arg[t].id, arg[t].stopped, 200, "started",
                        [session_id |-> arg[t].id, message |-> "Vision monitoring active"]))
  /\ UNCHANGED <<now, vision_sessions, nobj, sessVars, wres, produced, lastDelivered>>

\* -------------------------------------------------- POST /api/vision/stop
\* lines 365-368 and 374
BeginStop(t, id) ==
  /\ pc[t] = "idle"
  /\ IF id # NoId /\ id \in DOMAIN vision_sessions
       THEN /\ pc' = [pc EXCEPT ![t] = "stop_stop"]
            /\ arg' = [arg EXCEPT ![t] = [id |-> id, lang |-> "en-US", stopped |-> None]]
            /\ UNCHANGED <<loc, sweep, resp>>
       ELSE Return(t, Response("stop", id, None, 404, "not_found", [error |-> "none"]))
  /\ UNCHANGED <<now, vision_sessions, nobj, sessVars, workerVars, lastDelivered>>

\* line 369: vision_sessions[session_id].stop()
StopStop(t) ==
  /\ pc[t] = "stop_stop"
  /\ IF arg[t].id \in DOMAIN vision_sessions
       THEN /\ SessionStop(vision_sessions[arg[t].id])
            /\ arg' = [arg EXCEPT ![t].stopped = vision_sessions[arg[t].id]]
            /\ pc' = [pc EXCEPT ![t] = "stop_del"]
            /\ UNCHANGED <<loc, sweep, resp>>
       ELSE /\ Return(t, Unhandled("stop", arg[t].id, "KeyError"))
            /\ UNCHANGED active
  /\ UNCHANGED <<now, vision_sessions, nobj, sid, language, queue, last_activity,
                 workerVars, lastDelivered>>

\* line 370 left out: the stop answers with the session still registered
StopDel_Keep(t) ==
  /\ pc[t] = "stop_del"
  /\ Return(t, Response("stop", arg[t].id, arg[t].stopped, 200, "stopped", [error |-> "none"]))
  /\ UNCHANGED <<now, vision_sessions, nobj, sessVars, workerVars, lastDelivered>>

\* lines 370-372: del vision_sessions[session_id]; return stopped
StopDel(t) ==
  /\ pc[t] = "stop_del"
  /\ IF arg[t].id \in DOMAIN vision_sessions
       THEN /\ vision_sessions' = DictDel(vision_sessions, arg[t].id)
            /\ Return(t, Response("stop", arg[t].id, arg[t].stopped, 200, "stopped", [error |-> "none"]))
       ELSE /\ Return(t, Unhandled("stop", arg[t].id, "KeyError"))
            /\ UNCHANGED vision_sessions
  /\ UNCHANGED <<now, nobj, sessVars, workerVars, lastDelivered>>


\* -------------------------------------------------- POST /api/vision/poll
\* lines 341-342 left out: the poll goes on to the lookup whatever the registry holds
BeginPoll_NoCheck(t, id) ==
  /\ pc[t] = "idle"
  /\ pc' = [pc EXCEPT ![t] = "poll_lookup"]
  /\ arg' = [arg EXCEPT ![t] = [id |-> id, lang |-> "en-US", stopped |-> None]]
  /\ UNCHANGED <<loc, sweep, resp>>
  /\ UNCHANGED <<now, vision_sessions, nobj, sessVars, workerVars, lastDelivered>>

\* lines 338-342
BeginPoll(t, id) ==
  /\ pc[t] = "idle"
  /\ IF id = NoId \/ id \notin DOMAIN vision_sessions
       THEN Return(t, Response("poll", id, None, 404, "no_session", [detections |-> << >>]))
       ELSE /\ pc' = [pc EXCEPT ![t] = "poll_lookup"]
            /\ arg' = [arg EXCEPT ![t] = [id |-> id, lang |-> "en-US", stopped |-> None]]
            /\ UNCHANGED <<loc, sweep, resp>>
  /\ UNCHANGED <<now, vision_sessions, nobj, sessVars, workerVars, lastDelivered>>

\* line 344 with the lookup giving the first session made with the identifier
PollLookup_First(t) ==
  /\ pc[t] = "poll_lookup"
  /\ LET o == CHOOSE x \in Objs : sid[x] = arg[t].id /\ \A y \in Objs : sid[y] = arg[t].id => x <= y IN
       /\ loc' = [loc EXCEPT ![t] = o]
       /\ last_activity' = [last_activity EXCEPT ![o] = now]
       /\ pc' = [pc EXCEPT ![t] = "poll_empty"]
       /\ UNCHANGED <<arg, sweep, resp>>
  /\ UNCHANGED <<now, vision_sessions, nobj, sid, language, active, queue, workerVars,
                 lastDelivered>>

\* lines 344-345: session = vision_sessions[session_id]; refresh last_activity
PollLookup(t) ==
  /\ pc[t] = "poll_lookup"
  /\ IF arg[t].id \in DOMAIN vision_sessions
       THEN LET o == vision_sessions[arg[t].id] IN
            /\ loc' = [loc EXCEPT ![t] = o]
            /\ last_activity' = [last_activity EXCEPT ![o] = now]
            /\ pc' = [pc EXCEPT ![t] = "poll_empty"]
            /\ UNCHANGED <<arg, sweep, resp>>
       ELSE /\ Return(t, Unhandled("poll", arg[t].id, "KeyError"))
            /\ UNCHANGED last_activity
  /\ UNCHANGED <<now, vision_sessions, nobj, sid, language, active, queue, workerVars,
                 lastDelivered>>

\* lines 347 and 361: if not session.queue.empty()
PollEmpty(t) ==
  /\ pc[t] = "poll_empty"
  /\ IF queue[loc[t]] # << >>
       THEN Goto(t, "poll_get")
       ELSE Return(t, Response("poll", arg[t].id, loc[t], 200, "no_data", [detections |-> << >>]))
  /\ UNCHANGED <<now, vision_sessions, nobj, sessVars, workerVars, lastDelivered>>

\* line 348 with a read that leaves the result in the queue
PollGet_Peek(t, tr) ==
  /\ pc[t] = "poll_get"
  /\ queue[loc[t]] # << >>
  /\ LET o == loc[t]
         detection == Head(queue[o]) IN
       /\ lastDelivered' = [lastDelivered EXCEPT ![o] = detection.seq]
       /\ Return(t, Response("poll", arg[t].id, o, 200, detection.status, detection))
  /\ UNCHANGED <<now, vision_sessions, nobj, sessVars, workerVars>>

\* lines 348-359: detection = session.queue.get(), a get that waits while the
\* queue is empty; then the translation of its response text and the response.
\* tr: TRANSLATOR_AVAILABLE and what GoogleTranslator gives
PollGet(t, tr) ==
  /\ pc[t] = "poll_get"
  /\ queue[loc[t]] # << >>
  /\ LET o == loc[t]
         detection == Head(queue[o])
         lang == SplitDash(language[o])
         response == IF lang # "en"
                       THEN translate_text(tr.available, detection.response, "en", lang,
                                           tr.out).ret
                       ELSE detection.response IN
       /\ queue' = [queue EXCEPT ![o] = Tail(queue[o])]
       /\ lastDelivered' = [lastDelivered EXCEPT ![o] = detection.seq]
       /\ Return(t, Response("poll", arg[t].id, o, 200, detection.status,
                             [detection EXCEPT !.response = response]))
  /\ UNCHANGED <<now, vision_sessions, nobj, sid, language, active, last_activity,
                 workerVars>>

\* ------------------------------------ GET /health, cleanup_inactive_sessions
\* lines 454-457: current_time, inactive = [], the iterator over items()
BeginHealth(t) ==
  /\ pc[t] = "idle"
  /\ sweep' = [sweep EXCEPT ![t] = [current_time |-> now,
                                    size |-> Cardinality(DOMAIN vision_sessions),
                                    visited |-> {}, inactive |-> << >>]]
  /\ pc' = [pc EXCEPT ![t] = "sweep_scan"]
  /\ UNCHANGED <<now, vision_sessions, nobj, sessVars, workerVars, arg, loc, resp,
                 lastDelivered>>

\* line 458 with the threshold taken for milliseconds
Stale_Millis(current_time, session) ==
  current_time - last_activity[session] > IdleThreshold * 1000

\* line 458: current_time - session.last_activity > 300
Stale(current_time, session) ==
  current_time - last_activity[session] > IdleThreshold

\* lines 457-459: one step of the for loop over vision_sessions.items(); the
\* iterator raises RuntimeError when the dict changed size since it was made
SweepScan(t) ==
  /\ pc[t] = "sweep_scan"
  /\ LET rest == (DOMAIN vision_sessions) \ sweep[t].visited IN
     IF Cardinality(DOMAIN vision_sessions) # sweep[t].size
       THEN Return(t, Unhandled("health", NoId, "RuntimeError"))
       ELSE IF rest = {}
         THEN Goto(t, IF sweep[t].inactive = << >> THEN "health_ret" ELSE "sweep_stop")
         ELSE \E session_id \in rest :
                LET session == vision_sessions[session_id]
                    stale == Stale(sweep[t].current_time, session) IN
                /\ sweep' = [sweep EXCEPT ![t].visited = @ \cup {session_id},
                                          ![t].inactive =
                                             IF stale THEN Append(@, session_id) ELSE @]
                /\ UNCHANGED <<pc, arg, loc, resp>>
  /\ UNCHANGED <<now, vision_sessions, nobj, sessVars, workerVars, lastDelivered>>

\* line 462: vision_sessions[session_id].stop()
SweepStop(t) ==
  /\ pc[t] = "sweep_stop"
  /\ LET session_id == Head(sweep[t].inactive) IN
     IF session_id \in DOMAIN vision_sessions
       THEN /\ SessionStop(vision_sessions[session_id])
            /\ Goto(t, "sweep_del")
       ELSE /\ Return(t, Unhandled("health", NoId, "KeyError"))
            /\ UNCHANGED active
  /\ UNCHANGED <<now, vision_sessions, nobj, sid, language, queue, last_activity,
                 workerVars, lastDelivered>>

\* line 463: del vision_sessions[session_id], then the next element of inactive
SweepDel(t) ==
  /\ pc[t] = "sweep_del"
  /\ LET session_id == Head(sweep[t].inactive) IN
     IF session_id \in DOMAIN vision_sessions
       THEN /\ vision_sessions' = DictDel(vision_sessions, session_id)
            /\ sweep' = [sweep EXCEPT ![t].inactive = Tail(@)]
            /\ pc' = [pc EXCEPT ![t] =
                        IF Tail(sweep[t].inactive) = << >> THEN "health_ret" ELSE "sweep_stop"]
            /\ UNCHANGED <<arg, loc, resp>>
       ELSE /\ Return(t, Unhandled("health", NoId, "KeyError"))
            /\ UNCHANGED vision_sessions
  /\ UNCHANGED <<now, nobj, sessVars, workerVars, lastDelivered>>

\* lines 106-111: the health response
HealthRet(t) ==
  /\ pc[t] = "health_ret"
  /\ Return(t, Response("health", NoId, None, 200, "healthy",
                        [active_vision_sessions |-> Cardinality(DOMAIN vision_sessions)]))
  /\ UNCHANGED <<now, vision_sessions, nobj, sessVars, workerVars, lastDelivered>>

\* ----------------------------------------- vision_monitoring_worker: steps
RECURSIVE SumTo(_, _)
SumTo(f, n) == IF n = 0 THEN 0 ELSE f[n] + SumTo(f, n - 1)

\* results built so far by all workers
TotalProduced == SumTo(produced, MaxObjs)

\* line 388 as `while True`: the flag is not read
WorkerWhile_Forever(o, maxp) ==
  /\ wpc[o] = "while"
  /\ TotalProduced < maxp
  /\ wpc' = [wpc EXCEPT ![o] = "cycle"]
  /\ UNCHANGED <<now, vision_sessions, nobj, sessVars, wres, produced, pc, arg, loc,
                 sweep, resp, lastDelivered>>

\* line 388: while session.active (first entry, and again after each sleep)
WorkerWhile(o, maxp) ==
  /\ wpc[o] = "while"
  /\ IF active[o]
       THEN /\ TotalProduced < maxp
            /\ wpc' = [wpc EXCEPT ![o] = "cycle"]
       ELSE wpc' = [wpc EXCEPT ![o] = "ended"]
  /\ UNCHANGED <<now, vision_sessions, nobj, sessVars, wres, produced, pc, arg, loc,
                 sweep, resp, lastDelivered>>

\* lines 390-434: perception and the result of this cycle
WorkerCycle(o, scene) ==
  /\ wpc[o] = "cycle"
  /\ wres' = [wres EXCEPT ![o] = BuildResult(o, scene)]
  /\ produced' = [produced EXCEPT ![o] = @ + 1]
  /\ wpc' = [wpc EXCEPT ![o] = "full"]
  /\ UNCHANGED <<now, vision_sessions, nobj, sessVars, pc, arg, loc, sweep, resp,
                 lastDelivered>>

\* lines 447-449 left out: the exception ends the thread
WorkerFail_Ends(o) ==
  /\ wpc[o] = "cycle"
  /\ wpc' = [wpc EXCEPT ![o] = "ended"]
  /\ UNCHANGED <<now, vision_sessions, nobj, sessVars, wres, produced, pc, arg, loc,
                 sweep, resp, lastDelivered>>

\* lines 447-449: a call of the cycle raises an Exception before the put; the
\* except branch logs it and sleeps, and no result is built
WorkerFail(o) ==
  /\ wpc[o] = "cycle"
  /\ wpc' = [wpc EXCEPT ![o] = "sleep"]
  /\ UNCHANGED <<now, vision_sessions, nobj, sessVars, wres, produced, pc, arg, loc,
                 sweep, resp, lastDelivered>>

\* line 436 with a test that misses the queue that is exactly full
WorkerFull_OffByOne(o) ==
  /\ wpc[o] = "full"
  /\ wpc' = [wpc EXCEPT ![o] = IF Len(queue[o]) > QueueMax THEN "evict" ELSE "put"]
  /\ UNCHANGED <<now, vision_sessions, nobj, sessVars, wres, produced, pc, arg, loc,
                 sweep, resp, lastDelivered>>

\* line 436: if session.queue.full()
WorkerFull(o) ==
  /\ wpc[o] = "full"
  /\ wpc' = [wpc EXCEPT ![o] = IF Len(queue[o]) >= QueueMax THEN "evict" ELSE "put"]
  /\ UNCHANGED <<now, vision_sessions, nobj, sessVars, wres, produced, pc, arg, loc,
                 sweep, resp, lastDelivered>>

\* lines 437-440: get_nowait(), queue.Empty swallowed
WorkerEvict(o) ==
  /\ wpc[o] = "evict"
  /\ queue' = [queue EXCEPT ![o] = IF @ = << >> THEN @ ELSE Tail(@)]
  /\ wpc' = [wpc EXCEPT ![o] = "put"]
  /\ UNCHANGED <<now, vision_sessions, nobj, sid, language, active, last_activity, wres,
                 produced, pc, arg, loc, sweep, resp, lastDelivered>>

\* line 442 with the result put at the head of the queue
WorkerPut_Front(o) ==
  /\ wpc[o] = "put"
  /\ Len(queue[o]) < QueueMax
  /\ queue' = [queue EXCEPT ![o] = <<wres[o]>> \o @]
  /\ wres' = [wres EXCEPT ![o] = NoResult]
  /\ wpc' = [wpc EXCEPT ![o] = "sleep"]
  /\ UNCHANGED <<now, vision_sessions, nobj, sid, language, active, last_activity,
                 produced, pc, arg, loc, sweep, resp, lastDelivered>>

\* line 442: session.queue.put(result), a put that waits while the queue is full
WorkerPut(o) ==
  /\ wpc[o] = "put"
  /\ Len(queue[o]) < QueueMax
  /\ queue' = [queue EXCEPT ![o] = Append(@, wres[o])]
  /\ wres' = [wres EXCEPT ![o] = NoResult]
  /\ wpc' = [wpc EXCEPT ![o] = "sleep"]
  /\ UNCHANGED <<now, vision_sessions, nobj, sid, language, active, last_activity,
                 produced, pc, arg, loc, sweep, resp, lastDelivered>>

\* lines 445 and 449: time.sleep(5)
WorkerSleep(o) ==
  /\ wpc[o] = "sleep"
  /\ wpc' = [wpc EXCEPT ![o] = "while"]
  /\ UNCHANGED <<now, vision_sessions, nobj, sessVars, wres, produced, pc, arg, loc,
                 sweep, resp, lastDelivered>>

\* ------------------------------------------------------------------- clock
Tick ==
  /\ now + TickStep <= MaxTime
  /\ now' = now + TickStep
  /\ UNCHANGED <<vision_sessions, nobj, sessVars, workerVars, pc, arg, loc, sweep, resp,
                 lastDelivered>>

\* ------------------------------------------------------ reference counts
\* A VisionSession is referenced by the registry, by its worker thread while
\* that runs, and by the local variable session of a handler
Referenced(o) ==
  \/ \E k \in DOMAIN vision_sessions : vision_sessions[k] = o
  \/ wpc[o] \notin {"unborn", "ended"}
  \/ \E t \in Reqs : loc[t] = o

Dead(o) == o <= nobj /\ ~Referenced(o)

Freed(o) ==
  /\ queue[o] = << >>
  /\ last_activity[o] = 0
  /\ language[o] = "en-US"
  /\ lastDelivered[o] = 0

Garbage == \E o \in Objs : Dead(o) /\ ~Freed(o)

Unsent == \E t \in Reqs : resp[t] # NoResp

\* What happens at once when a handler or a worker ends: the response leaves
\* for the client, and CPython frees each VisionSession whose last reference
\* went (its queue and its other attributes are gone; the flag and the
\* identifier stay in the model to tell which session the object was).
Settle ==
  /\ Garbage \/ Unsent
  /\ resp' = [t \in Reqs |-> NoResp]
  /\ queue' = [o \in Objs |-> IF Dead(o) THEN << >> ELSE queue[o]]
  /\ last_activity' = [o \in Objs |-> IF Dead(o) THEN 0 ELSE last_activity[o]]
  /\ language' = [o \in Objs |-> IF Dead(o) THEN "en-US" ELSE language[o]]
  /\ lastDelivered' = [o \in Objs |-> IF Dead(o) THEN 0 ELSE lastDelivered[o]]
  /\ UNCHANGED <<now, vision_sessions, nobj, sid, active, workerVars, pc, arg, loc, sweep,
                 dlg>>

\* ------------------------------------------------------- steps of a run
\* One step of a handler or of a worker: it is taken when no response waits to
\* leave and no unreferenced VisionSession waits to be freed
Step(A) ==
  /\ ~(Garbage \/ Unsent)
  /\ A
  /\ UNCHANGED dlg

\* identifiers a request can carry: the client's own, the registered ones, none
RequestIds == ClientIds \cup (DOMAIN vision_sessions) \cup {NoId}

\* the handlers of /api/vision/start, /api/vision/poll and /api/vision/stop on
\* the request threads T
SessionHandlers(T, startIds, langs, trs) ==
  \/ \E t \in T, id \in startIds, lang \in langs : Step(BeginStart(t, id, lang))
  \/ \E t \in T : Step(StartStop(t))
  \/ \E t \in T : Step(StartDel(t))
  \/ \E t \in T : Step(StartNew(t))
  \/ \E t \in T : Step(StartSpawn(t))
  \/ \E t \in T, id \in RequestIds : Step(BeginPoll(t, id))
  \/ \E t \in T : Step(PollLookup(t))
  \/ \E t \in T : Step(PollEmpty(t))
  \/ \E t \in T, tr \in trs : Step(PollGet(t, tr))
  \/ \E t \in T, id \in RequestIds : Step(BeginStop(t, id))
  \/ \E t \in T : Step(StopStop(t))
  \/ \E t \in T : Step(StopDel(t))

\* the handler of /health on the request threads T
HealthHandlers(T) ==
  \/ \E t \in T : Step(BeginHealth(t))
  \/ \E t \in T : Step(SweepScan(t))
  \/ \E t \in T : Step(SweepStop(t))
  \/ \E t \in T : Step(SweepDel(t))
  \/ \E t \in T : Step(HealthRet(t))

\* the worker threads, which build at most maxp results in all
Workers(scenes, maxp) ==
  \/ \E o \in Objs : Step(WorkerWhile(o, maxp))
  \/ \E o \in Objs, scene \in scenes : Step(WorkerCycle(o, scene))
  \/ \E o \in Objs : Step(WorkerFull(o))
  \/ \E o \in Objs : Step(WorkerPut(o))
  \/ \E o \in Objs : Step(WorkerSleep(o))

\* the eviction branch of the worker, taken only once a queue has filled
Evictions ==
  \E o \in Objs : Step(WorkerEvict(o))

\* the except branch of the worker
Failures ==
  \E o \in Objs : Step(WorkerFail(o))

\* ---------------------------------------------------------- dialogue calls
\* "Hello"
Hello ==
  <<"H", "e", "l", "l", "o">>
\* a Hindi greeting, one word
Namaste ==
  <<"hi:namaste">>
\* a reply of three sentences: "Hi. All good. Bye."
ThreeSentences ==
  <<"H", "i", ".", " ", "A", "l", "l", " ", "g", "o", "o", "d", ".", " ", "B", "y", "e", ".">>
\* a translation GoogleTranslator gives
Translated ==
  <<"t", "r", "a", "n", "s", "l", "a", "t", "e", "d">>

Messages == {Hello, Namaste, << >>, NonString}
LanguageTags == {"en", "en-US", "hi", "hi-IN", "fr"}
AskLangs == PhiLangs \cup {"fr"}
PhiOutcomes == {Raised, Reply(<<" ">>), Reply(ISeeAPerson), Reply(ThreeSentences)}
TranslatorOutcomes == {Raised, ReturnedNone, Reply(Translated)}

PhiOutcomeSeqs == {<<a, b>> : a \in PhiOutcomes, b \in PhiOutcomes}

\* a call of ask_phi
CallAskPhi(available, message, lang, outs) ==
  /\ dlg = NoCall
  /\ dlg' = [op |-> "ask_phi",
             in |-> [available |-> available, message |-> message, lang |-> lang,
                     outs |-> outs],
             out |-> ask_phi(available, message, lang, outs)]
  /\ UNCHANGED visionVars

\* a POST /phi request
PhiRequest(req, ext) ==
  /\ dlg = NoCall
  /\ dlg' = [op |-> "phi", in |-> [req |-> req, ext |-> ext], out |-> phi_endpoint(req, ext)]
  /\ UNCHANGED visionVars

\* the call is over
DlgDone ==
  /\ dlg # NoCall
  /\ dlg' = NoCall
  /\ UNCHANGED visionVars

PhiRequests == [json_ok : BOOLEAN, user_input : Messages, language : LanguageTags]
PhiExts == [translator : BOOLEAN, phi_import : BOOLEAN, ollama : BOOLEAN,
            trIn : TranslatorOutcomes, trOut : TranslatorOutcomes,
            phi : PhiOutcomeSeqs, toEn : {Raised}, fromEn : {Raised}]

NextPhi ==
  \/ /\ dlg = NoCall
     /\ \E available \in BOOLEAN, message \in Messages, lang \in AskLangs,
           outs \in PhiOutcomeSeqs : CallAskPhi(available, message, lang, outs)
  \/ /\ dlg = NoCall
     /\ \E req \in PhiRequests, ext \in PhiExts : PhiRequest(req, ext)
  \/ DlgDone

\* The dialogue calls, each from its input to its result
SpecPhi == Init /\ [][NextPhi]_vars

\* ------------------------------------------------- calls of the text functions
\* two spaces
Blank ==
  <<" ", " ">>
\* "Thanks a lot"
Thanks ==
  <<"T", "h", "a", "n", "k", "s", " ", "a", " ", "l", "o", "t">>
\* "SORRY"
Sorry ==
  <<"S", "O", "R", "R", "Y">>
\* "Thanks, sorry"
ThanksSorry ==
  <<"T", "h", "a", "n", "k", "s", ",", " ", "s", "o", "r", "r", "y">>
\* "sorry, wow"
SorryWow ==
  <<"s", "o", "r", "r", "y", ",", " ", "w", "o", "w">>
\* "Wow, why?"
WowWhy ==
  <<"W", "o", "w", ",", " ", "w", "h", "y", "?">>
\* "I am unhappy"
Unhappy ==
  <<"I", " ", "a", "m", " ", "u", "n", "h", "a", "p", "p", "y">>
\* "Goodbye"
Goodbye ==
  <<"G", "o", "o", "d", "b", "y", "e">>
\* "Why?"
Why ==
  <<"W", "h", "y", "?">>
\* a reply of four sentences, none ended by a full stop and a space:
\* "Hi! How are you? I am fine! Bye!"
Exclaims ==
  <<"H", "i", "!", " ", "H", "o", "w", " ", "a", "r", "e", " ", "y", "o", "u", "?", " ", "I", " ", "a", "m", " ", "f", "i", "n", "e", "!", " ", "B", "y", "e", "!">>
\* a reply of three sentences ended by dandas
ThreeDandas ==
  <<"hi:namaste", "DANDA", " ", "hi:accha", "DANDA", " ", "hi:dhanyavad", "DANDA">>
\* a reply of two sentences: "Hi. Bye."
TwoSentences ==
  <<"H", "i", ".", " ", "B", "y", "e", ".">>

Texts == {Hello, Namaste, Blank, << >>, NonString}
TranslateTags == {"auto", "en", "en-US", "hi", "hi-IN", "fr"}
EmotionTexts == {<< >>, Hello, Thanks, Sorry, ThanksSorry, SorryWow, WowWhy, Unhappy, Goodbye,
                 Why, ApologyEn, ApologyHi, ApologyTe, <<"hi:dhanyavad">>, <<"hi:vah", " ", "hi:khed">>}
ReplyTexts == {ISeeAPerson, TwoSentences, ThreeSentences, ThreeDandas, Exclaims}

\* a call of translate_text
CallTranslateText(available, text, source_lang, target_lang, out) ==
  /\ dlg = NoCall
  /\ dlg' = [op |-> "translate_text",
             in |-> [available |-> available, text |-> text, source |-> source_lang,
                     target |-> target_lang, out |-> out],
             out |-> translate_text(available, text, source_lang, target_lang, out)]
  /\ UNCHANGED visionVars

\* a POST /api/translate request
TranslateRequest(req, ext) ==
  /\ dlg = NoCall
  /\ dlg' = [op |-> "translate", in |-> [req |-> req, ext |-> ext],
             out |-> api_translate(req, ext)]
  /\ UNCHANGED visionVars

\* a call of detect_emotion_from_text of phi.py
CallDetectEmotion(text) ==
  /\ dlg = NoCall
  /\ dlg' = [op |-> "detect_emotion", in |-> [text |-> text],
             out |-> detect_emotion_from_text(text)]
  /\ UNCHANGED visionVars

\* a call of vision_assistant_cycle of vision.py
CallVisionCycle(payload, scene) ==
  /\ dlg = NoCall
  /\ dlg' = [op |-> "vision_cycle", in |-> [payload |-> payload, scene |-> scene],
             out |-> vision_assistant_cycle(payload, scene)]
  /\ UNCHANGED visionVars

CyclePayloads == [language : {"en-US", "hi-IN", "fr"}, user_input : {<< >>, Hello},
                  image_data : BOOLEAN]

\* a call of create_natural_description of vision.py; items_sorted is its
\* local variable of line 237
CallDescribe(items, lang) ==
  /\ dlg = NoCall
  /\ dlg' = [op |-> "describe", in |-> [items |-> items, lang |-> lang],
             out |-> [description |-> create_natural_description(items, lang),
                      items_sorted |-> SortedDesc(items)]]
  /\ UNCHANGED visionVars

\* the items given to create_natural_description: a label and a size ratio in
\* hundredths, the larger one close and on the left
SeenItems ==
  {[label |-> l, direction |-> IF r > 25 THEN "left" ELSE "ahead", confidence |-> 874,
    distance |-> IF r > 25 THEN "close" ELSE "far", size_ratio |-> r] :
     l \in {Person, Car, Truck, Cup}, r \in {10, 30}}

\* the lists of at most MaxItems of them
ItemLists == UNION {[1..n -> SeenItems] : n \in 0..MaxItems}

\* get_direction_from_center of vision.py; center_x comes doubled (x1 + x2),
\* so that the comparisons with width / 3 and 2 * width / 3 stay in integers
get_direction_from_center(center_x2, width) ==
  IF 3 * center_x2 < 2 * width THEN "left"
  ELSE IF 3 * center_x2 < 4 * width THEN "ahead"
  ELSE "right"

\* "Camera not initialized" (vision.py line 155)
CameraNotInitialized ==
  <<"C", "a", "m", "e", "r", "a", " ", "n", "o", "t", " ", "i", "n", "i", "t", "i", "a", "l", "i", "z", "e", "d">>
\* "Failed to capture frame" (vision.py line 178)
FailedToCaptureFrame ==
  <<"F", "a", "i", "l", "e", "d", " ", "t", "o", " ", "c", "a", "p", "t", "u", "r", "e", " ", "f", "r", "a", "m", "e">>
\* f"Camera error: {str(e)}" (vision.py line 226)
CameraError(e) ==
  <<"C", "a", "m", "e", "r", "a", " ", "e", "r", "r", "o", "r", ":", " ">> \o e

\* the item of one box in a frame of the given shape (lines 192-212); a box
\* whose attributes cannot be read raises and gives no item
BoxItem(box, height, width) ==
  LET box_area == (box.x2 - box.x1) * (box.y2 - box.y1)
      frame_area == height * width IN
  [label |-> box.label,
   direction |-> get_direction_from_center(box.x1 + box.x2, width),
   confidence |-> box.conf,
   distance |-> IF 4 * box_area > frame_area THEN "close" ELSE "far",
   size_ratio |-> (100 * box_area) \div frame_area]

\* the loop over the boxes (lines 190-220): except Exception: continue
RECURSIVE BoxItems(_, _, _)
BoxItems(boxes, height, width) ==
  IF boxes = << >> THEN << >>
  ELSE IF Head(boxes).readable
       THEN <<BoxItem(Head(boxes), height, width)>> \o BoxItems(Tail(boxes), height, width)
       ELSE BoxItems(Tail(boxes), height, width)

\* detect_objects_from_camera of vision.py: cam tells whether the detector
\* was loaded, which of the three backends opens the camera (0: none), what
\* cap.read() gives, and what model.predict gives for the frame
detect_objects_from_camera(cam) ==
  IF ~cam.model THEN [raised |-> FALSE, items |-> << >>, error |-> CameraNotInitialized]
  ELSE IF cam.opens = 0 THEN [raised |-> FALSE, items |-> << >>, error |-> CameraNotAccessible]
  ELSE IF cam.frame # "frame" THEN [raised |-> FALSE, items |-> << >>, error |-> FailedToCaptureFrame]
  ELSE IF cam.predict = "raise"
       THEN [raised |-> FALSE, items |-> << >>, error |-> CameraError(ExceptionText)]
  ELSE IF cam.predict = "no results" THEN [raised |-> FALSE, items |-> << >>, error |-> << >>]
  ELSE IF cam.predict = "no boxes" \/ cam.boxes = << >>
       THEN [raised |-> FALSE, items |-> << >>, error |-> << >>]
  ELSE [raised |-> FALSE, items |-> BoxItems(cam.boxes, FrameHeight, FrameWidth),
        error |-> << >>]

\* a call of detect_objects_from_camera of vision.py
CallDetectObjects(cam) ==
  /\ dlg = NoCall
  /\ dlg' = [op |-> "detect_objects", in |-> cam, out |-> detect_objects_from_camera(cam)]
  /\ UNCHANGED visionVars

\* the boxes of a result: a person on the left filling a third of the frame,
\* a car ahead, a cup on the right, and a box whose attributes cannot be read
Boxes ==
  {[readable |-> TRUE, label |-> Person, conf |-> 874, x1 |-> 0, y1 |-> 0, x2 |-> 2, y2 |-> 4],
   [readable |-> TRUE, label |-> Car, conf |-> 641, x1 |-> 2, y1 |-> 1, x2 |-> 4, y2 |-> 3],
   [readable |-> TRUE, label |-> Cup, conf |-> 512, x1 |-> 4, y1 |-> 1, x2 |-> 6, y2 |-> 2],
   [readable |-> FALSE, label |-> Cup, conf |-> 0, x1 |-> 0, y1 |-> 0, x2 |-> 0, y2 |-> 0]}

\* what the camera and the detector give to one call
Cameras ==
  [model : BOOLEAN, opens : 0..3, frame : {"frame", "not ret", "None"},
   predict : {"raise", "no results", "no boxes", "boxes"},
   boxes : UNION {[1..n -> Boxes] : n \in 0..MaxBoxes}]

TranslateRequests == [json_ok : BOOLEAN, text : Texts, source : TranslateTags,
                      target : TranslateTags]
TranslateExts == [translator : BOOLEAN, out : TranslatorOutcomes]

NextText ==
  \/ /\ dlg = NoCall
     /\ \E available \in BOOLEAN, text \in Texts, source_lang \in TranslateTags,
           target_lang \in TranslateTags, out \in TranslatorOutcomes :
          CallTranslateText(available, text, source_lang, target_lang, out)
  \/ /\ dlg = NoCall
     /\ \E req \in TranslateRequests, ext \in TranslateExts : TranslateRequest(req, ext)
  \/ /\ dlg = NoCall
     /\ \E text \in EmotionTexts : CallDetectEmotion(text)
  \/ /\ dlg = NoCall
     /\ \E payload \in CyclePayloads, scene \in Scenes : CallVisionCycle(payload, scene)
  \/ /\ dlg = NoCall
     /\ \E items \in ItemLists, lang \in {"en", "hi"} : CallDescribe(items, lang)
  \/ /\ dlg = NoCall
     /\ \E cam \in Cameras : CallDetectObjects(cam)
  \/ /\ dlg = NoCall
     /\ \E lang \in {"en", "hi"}, first \in ReplyTexts, second \in ReplyTexts :
          CallAskPhi(TRUE, Hello, lang, <<Reply(first), Reply(second)>>)
  \/ /\ dlg = NoCall
     /\ \E lang \in {"en", "hi"}, second \in ReplyTexts :
          CallAskPhi(TRUE, Hello, lang, <<Raised, Reply(second)>>)
  \/ DlgDone

\* The text functions and /api/translate, each from its input to its result
SpecText == Init /\ [][NextText]_vars

EnglishOnly == {"en-US"}
OneTranslator == {[available |-> TRUE, out |-> Raised]}

\* Two request threads and the workers, interleaved statement by statement
Next ==
  \/ Settle
  \/ SessionHandlers(Reqs, ClientIds, EnglishOnly, OneTranslator)
  \/ Workers({SceneDetection}, MaxProducedConc)
Spec == Init /\ [][Next]_vars

\* One request at a time (each handler runs to its response before the next
\* request is taken), the workers and the clock
NextSeq ==
  \/ Settle
  \/ SessionHandlers({1}, ClientIds, EnglishOnly, OneTranslator)
  \/ HealthHandlers({1})
  \/ Workers({SceneDetection}, MaxProducedSeq)
  \/ Step(Tick)
SpecSeq == Init /\ [][NextSeq]_vars

\* the steps of the worker thread of the session object o
WorkerSteps(o, scenes, maxp) ==
  \/ Step(WorkerWhile(o, maxp))
  \/ \E scene \in scenes : Step(WorkerCycle(o, scene))
  \/ Step(WorkerFail(o))
  \/ Step(WorkerFull(o))
  \/ Step(WorkerEvict(o))
  \/ Step(WorkerPut(o))
  \/ Step(WorkerSleep(o))

NextSweep ==
  \/ Settle
  \/ SessionHandlers({2}, ClientIds, EnglishOnly, OneTranslator)
  \/ HealthHandlers({1})
  \/ Workers({SceneClear}, MaxProducedSweep)
  \/ Step(Tick)

\* A /health request on one thread beside the session requests on another,
\* with the clock running
SpecSweep == Init /\ [][NextSweep]_vars

\* the scenes in which the inference service is not asked
QuietScenes == {SceneError, SceneClear}

NextCancel ==
  \/ Settle
  \/ SessionHandlers({1}, ClientIds, EnglishOnly, OneTranslator)
  \/ HealthHandlers({1})
  \/ Workers(QuietScenes, MaxProducedCancel)
  \/ Failures
  \/ Step(Tick)

\* Requests in sequence, the sweep and the clock, while the camera gives an
\* error or nothing or a call of the cycle raises, with the threads scheduled:
\* a response that waits leaves, and a worker thread that can run again and
\* again does run (each call it makes returns)
SpecCancel ==
  /\ Init
  /\ [][NextCancel]_vars
  /\ WF_vars(Settle)
  /\ \A o \in Objs : SF_vars(WorkerSteps(o, QuietScenes, MaxProducedCancel))

\* One request at a time and a worker that outruns the polls
NextQueue ==
  \/ Settle
  \/ SessionHandlers({1}, ClientIds, Languages, Translators)
  \/ Workers({SceneDetection}, MaxProduced)
  \/ Evictions
SpecQueue == Init /\ [][NextQueue]_vars

NextScenes ==
  \/ Settle
  \/ SessionHandlers({1}, ClientIds, Languages, Translators)
  \/ Workers(Scenes, MaxProducedScenes)

\* Requests in sequence while the camera gives an error, nothing or a person
SpecScenes == Init /\ [][NextScenes]_vars

\* ------------------------------------------------------------------ claims
\* the VisionSession objects constructed so far
Made == 1..nobj

\* o is a value of the registry
Registered(o) == \E k \in DOMAIN vision_sessions : vision_sessions[k] = o

\* the sequence numbers of the results in a queue
Seqs(q) == {q[i].seq : i \in 1..Len(q)}

\* C1: With one request handled at a time, a start on an identifier that is
\* registered stops the session found there and takes it out of the registry
\* before the new one is made; when the start answers, the identifier maps to
\* the newest object, active, with an empty queue and its worker started, and
\* every other session made for that identifier is inactive and unregistered.
\* At no time are two sessions of one identifier active.
C1_RestartReplacesSession ==
  /\ \A t \in Reqs :
       /\ pc[t] = "start_new" =>
            /\ arg[t].id \notin DOMAIN vision_sessions
            /\ \A p \in Made : sid[p] = arg[t].id => ~active[p]
       /\ (resp[t].op = "start" /\ resp[t].obj # None) =>
            /\ ~active[resp[t].obj]
            /\ resp[t].obj # vision_sessions[resp[t].id]
       /\ resp[t].op = "start" =>
            /\ resp[t].code = 200
            /\ resp[t].id \in DOMAIN vision_sessions
            /\ LET o == vision_sessions[resp[t].id] IN
                 /\ o = nobj
                 /\ active[o]
                 /\ queue[o] = << >>
                 /\ wpc[o] = "while"
                 /\ \A p \in Made \ {o} :
                      sid[p] = resp[t].id => ~active[p] /\ ~Registered(p)
  /\ \A p, q \in Made : (p # q /\ sid[p] = sid[q]) => ~(active[p] /\ active[q])

\* C1 witness: a start has answered after stopping the session it found, whose
\* worker has not ended yet
C1_Witness ==
  \E t \in Reqs :
    /\ resp[t].op = "start"
    /\ resp[t].obj # None
    /\ sid[resp[t].obj] = resp[t].id
    /\ wpc[resp[t].obj] \notin {"unborn", "ended"}
    /\ vision_sessions[resp[t].id] = resp[t].obj + 1

\* C2: A poll for an identifier the registry does not hold answers 404 with
\* status no_session and no detections, and never 500; an identifier enters
\* the registry only by the registration step of a start, so after a stop
\* every poll answers so until a later start.
C2_PollUnregistered ==
  /\ [](\A t \in Reqs :
          (resp[t].op = "poll" /\ resp[t].id \notin DOMAIN vision_sessions) =>
             /\ resp[t].code = 404
             /\ resp[t].status = "no_session"
             /\ resp[t].body = [detections |-> << >>])
  /\ [][\A id \in ClientIds :
          (id \notin DOMAIN vision_sessions /\ id \in DOMAIN vision_sessions') =>
             \E t \in Reqs : pc[t] = "start_new" /\ arg[t].id = id]_vars
  /\ [][\A t \in Reqs :
          (resp[t] = NoResp /\ resp'[t].op = "stop" /\ resp'[t].status = "stopped") =>
             resp'[t].id \notin DOMAIN vision_sessions']_vars

\* C2 witness: a poll has answered no_session for the identifier of a session
\* that was made and stopped, and is not registered
C2_Witness ==
  \E t \in Reqs :
    /\ resp[t].op = "poll"
    /\ resp[t].status = "no_session"
    /\ resp[t].id \in ClientIds
    /\ \E p \in Made : sid[p] = resp[t].id /\ ~active[p]

\* the result with the least sequence number in a queue that is not empty
Oldest(q) == CHOOSE r \in {q[i] : i \in 1..Len(q)} : \A i \in 1..Len(q) : r.seq <= q[i].seq

\* C3: The worker's put never waits: when the worker reaches it the queue holds
\* fewer than QueueMax results, polls interleaved or not. The eviction takes
\* out the oldest result and no other; the put leaves the new result, the
\* newest, last in the queue and the others as they were.
C3_EnqueueOnFull ==
  /\ [](\A o \in Objs : wpc[o] = "put" => Len(queue[o]) < QueueMax)
  /\ [][\A o \in Objs :
          (wpc[o] = "evict" /\ wpc'[o] = "put" /\ queue[o] # << >>) =>
             /\ Len(queue'[o]) = Len(queue[o]) - 1
             /\ Seqs(queue'[o]) = Seqs(queue[o]) \ {Oldest(queue[o]).seq}]_vars
  /\ [][\A o \in Objs :
          (wpc[o] = "put" /\ wpc'[o] = "sleep") =>
             /\ Len(queue'[o]) = Len(queue[o]) + 1
             /\ SubSeq(queue'[o], 1, Len(queue[o])) = queue[o]
             /\ queue'[o][Len(queue'[o])] = wres[o]
             /\ \A i \in 1..Len(queue[o]) : queue[o][i].seq < wres[o].seq]_vars

\* C3 witness: a queue is full, nothing of it was delivered, and its head is
\* not the first result: the first was evicted and a later one put last
C3_Witness ==
  \E o \in Objs :
    /\ Len(queue[o]) = QueueMax
    /\ lastDelivered[o] = 0
    /\ queue[o][1].seq = 2
    /\ queue[o][QueueMax].seq = produced[o]
    /\ wpc[o] = "sleep"

\* C4: A result a poll returns was built by the worker of the session polled,
\* is no longer in that session's queue, and has a sequence number above that
\* of every result the session delivered before: no result is returned twice,
\* concurrent polls included. Results in a queue are distinct and undelivered.
C4_DestructiveRead ==
  /\ [](\A o \in Objs :
          /\ \A i \in 1..Len(queue[o]) :
                /\ queue[o][i].src = o
                /\ queue[o][i].seq > lastDelivered[o]
                /\ queue[o][i].seq <= produced[o]
          /\ Cardinality(Seqs(queue[o])) = Len(queue[o]))
  /\ [][\A t \in Reqs :
          (resp[t] = NoResp /\ resp'[t].op = "poll" /\ resp'[t].status = "detection") =>
             LET r == resp'[t].body
                 o == resp'[t].obj IN
             /\ o = loc[t]
             /\ r.src = o
             /\ sid[o] = resp'[t].id
             /\ r.seq \in 1..produced[o]
             /\ r.seq > lastDelivered[o]
             /\ lastDelivered'[o] = r.seq
             /\ r.seq \notin Seqs(queue'[o])
             /\ Len(queue'[o]) = Len(queue[o]) - 1
             /\ \A u \in Reqs \ {t} :
                  resp'[u].op = "poll" /\ resp'[u].status = "detection" /\ resp'[u].obj = o
                    => resp'[u].body.seq # r.seq]_vars

\* C4 witness: a poll has returned a result while the other request thread is
\* in a poll of the same session
C4_Witness ==
  \E t, u \in Reqs :
    /\ t # u
    /\ resp[t].op = "poll"
    /\ resp[t].status = "detection"
    /\ pc[u] \in {"poll_empty", "poll_get"}
    /\ loc[u] = resp[t].obj

\* C5: A poll never waits: whenever a poll stands at the read of the queue,
\* the queue holds a result for it to take. (The read of line 348 waits while
\* the queue is empty.)
C5_PollNeverWaits ==
  \A t \in Reqs : pc[t] = "poll_get" => queue[loc[t]] # << >>

\* C6: With one request handled at a time, when the sweep has ended no session
\* whose last activity lay more than IdleThreshold seconds before the sweep's
\* current_time is active or registered; the sweep stops and removes exactly
\* the sessions of its list, and a later poll for an unregistered identifier
\* answers no_session.
C6_IdleSweep ==
  /\ [](\A t \in Reqs : pc[t] = "health_ret" =>
          \A o \in Made :
            sweep[t].current_time - last_activity[o] > IdleThreshold =>
              ~active[o] /\ ~Registered(o))
  /\ [](\A t \in Reqs : resp[t].op = "health" => resp[t].code = 200)
  /\ [][\A t \in Reqs :
          (pc[t] = "sweep_del" /\ pc'[t] # "sweep_del") =>
             LET id == Head(sweep[t].inactive) IN
             /\ id \in DOMAIN vision_sessions
             /\ ~active[vision_sessions[id]]
             /\ sweep[t].current_time - last_activity[vision_sessions[id]] > IdleThreshold
             /\ vision_sessions' = DictDel(vision_sessions, id)]_vars
  /\ [](\A t \in Reqs :
          (resp[t].op = "poll" /\ resp[t].id \notin DOMAIN vision_sessions) =>
             resp[t].status = "no_session")

\* C6 witness: a sweep has ended having removed a session idle for more than
\* IdleThreshold seconds, whose worker has not ended yet
C6_Witness ==
  \E t \in Reqs, o \in Made :
    /\ pc[t] = "health_ret"
    /\ sweep[t].current_time - last_activity[o] > IdleThreshold
    /\ sid[o] \in ClientIds
    /\ sid[o] \notin DOMAIN vision_sessions
    /\ ~active[o]
    /\ wpc[o] \notin {"unborn", "ended"}

\* C7: With one request handled at a time, a stop answers in one of two ways.
\* For a registered identifier: 200 and status stopped, the session it found is
\* inactive and the identifier is out of the registry, the other entries
\* untouched. For any other identifier: 404 and status not_found, the
\* registry and every session as they were.
C7_StopSemantics ==
  [][\A t \in Reqs :
       (resp[t] = NoResp /\ resp'[t].op = "stop") =>
          LET id == resp'[t].id IN
          \/ /\ id \in DOMAIN vision_sessions
             /\ resp'[t].code = 200
             /\ resp'[t].status = "stopped"
             /\ resp'[t].obj = vision_sessions[id]
             /\ ~active'[resp'[t].obj]
             /\ vision_sessions' = DictDel(vision_sessions, id)
             /\ id \notin DOMAIN vision_sessions'
          \/ /\ id \notin DOMAIN vision_sessions
             /\ pc[t] = "idle"
             /\ resp'[t].code = 404
             /\ resp'[t].status = "not_found"
             /\ UNCHANGED <<vision_sessions, sessVars>>]_vars

\* C7 witness: a stop has answered stopped for a session whose worker has not
\* ended yet
C7_Witness ==
  \E t \in Reqs :
    /\ resp[t].op = "stop"
    /\ resp[t].status = "stopped"
    /\ resp[t].obj # None
    /\ ~active[resp[t].obj]
    /\ wpc[resp[t].obj] \notin {"unborn", "ended"}
    /\ resp[t].id \notin DOMAIN vision_sessions

\* C8: The results of a queue stand in the order their worker built them, and
\* a poll returns the one at the head, built after every result the session
\* delivered before: the deliveries of a session are a subsequence of its
\* worker's production, evictions or not.
C8_DeliveryOrder ==
  /\ [](\A o \in Objs : \A i, j \in 1..Len(queue[o]) :
          i < j => queue[o][i].seq < queue[o][j].seq)
  /\ [][\A o \in Objs :
          (wpc[o] = "cycle" /\ wpc'[o] # "cycle") =>
             wres'[o].seq = produced[o] + 1 /\ produced'[o] = produced[o] + 1]_vars
  /\ [][\A t \in Reqs :
          (resp[t] = NoResp /\ resp'[t].op = "poll" /\ resp'[t].status = "detection") =>
             LET r == resp'[t].body
                 o == resp'[t].obj IN
             /\ r.seq = Oldest(queue[o]).seq
             /\ lastDelivered[o] < r.seq
             /\ \A i \in 1..Len(queue'[o]) : r.seq < queue'[o][i].seq]_vars

\* C8 witness: a poll has returned the second result from a queue that had
\* filled again after the first result was evicted
C8_Witness ==
  \E t \in Reqs :
    /\ resp[t].op = "poll"
    /\ resp[t].status = "detection"
    /\ resp[t].body.seq = 2
    /\ lastDelivered[resp[t].obj] = 2
    /\ Len(queue[resp[t].obj]) = QueueMax - 1

\* an attempt fails: the inference service raises, or its reply is empty once
\* stripped
Failed(out) == out.kind # "reply" \/ Strip(out.text) = << >>

\* the chat calls among the external events of a call
Chats(trace) == {i \in 1..Len(trace) : trace[i].ev = "chat"}

\* the apology of the static table for a language, the English one for a
\* language the table does not hold
Apology(lang) ==
  CASE lang = "hi" -> ApologyHi
    [] lang = "ta" -> ApologyTa
    [] lang = "te" -> ApologyTe
    [] lang = "kn" -> ApologyKn
    [] lang = "ml" -> ApologyMl
    [] OTHER -> ApologyEn

\* C9: A call of ask_phi with a text message and the inference library present
\* makes at most two chat calls. When the first attempt succeeds it is the only
\* one and its reply, cut to two sentences, is returned. When it fails, the
\* delay and then the second attempt follow; the second attempt's reply is
\* returned when it succeeds, and otherwise the apology of the static table
\* for the language asked, the English one for a language not in the table.
\* The call always returns a text.
C9_AskPhiRetries ==
  dlg.op = "ask_phi" =>
    LET message == dlg.in.message
        lang == dlg.in.lang
        outs == dlg.in.outs
        trace == dlg.out.trace
        chat == [ev |-> "chat", system |-> IF lang \in PhiLangs THEN lang ELSE "en",
                 user |-> message] IN
    /\ Cardinality(Chats(trace)) <= 2
    /\ IsStr(dlg.out.ret)
    /\ dlg.out.ret # << >>
    /\ (dlg.in.available /\ IsStr(message)) =>
         /\ ~Failed(outs[1]) =>
              /\ trace = <<chat>>
              /\ dlg.out.ret = LimitSentences(Strip(outs[1].text))
         /\ Failed(outs[1]) =>
              /\ trace = <<chat, SleepEvent, chat>>
              /\ ~Failed(outs[2]) => dlg.out.ret = LimitSentences(Strip(outs[2].text))
              /\ Failed(outs[2]) => dlg.out.ret = Apology(lang)

\* C9 witness: a call for Hindi whose two attempts failed, the first by an
\* empty reply and the second by an exception
C9_Witness ==
  /\ dlg.op = "ask_phi"
  /\ dlg.in.available
  /\ dlg.in.message = Namaste
  /\ dlg.in.lang = "hi"
  /\ dlg.in.outs = <<Reply(<<" ">>), Raised>>
  /\ dlg.out.ret = ApologyHi
  /\ Len(dlg.out.trace) = 3

\* C10: A POST /phi request with a message that is not empty and the language
\* Hindi, whose two inference attempts fail, is answered 200 with the Hindi
\* apology of the static table as its response text. (The handler asks
\* ask_phi_with_emotion for English, line 201, and passes the English apology
\* through translate_text.)
C10_PhiHindiApology ==
  (/\ dlg.op = "phi"
   /\ dlg.in.req.json_ok
   /\ IsStr(dlg.in.req.user_input)
   /\ dlg.in.req.user_input # << >>
   /\ dlg.in.req.language \in {"hi", "hi-IN"}
   /\ dlg.in.ext.phi_import
   /\ dlg.in.ext.ollama
   /\ Failed(dlg.in.ext.phi[1])
   /\ Failed(dlg.in.ext.phi[2]))
  => /\ dlg.out.code = 200
     /\ dlg.out.response = ApologyHi

\* the calls of translate_text among the events of a call
Adapters(trace) == {i \in 1..Len(trace) : trace[i].ev = "translate_text"}

\* the calls of GoogleTranslator among the events of a call
Translations(trace) == {i \in 1..Len(trace) : trace[i].ev = "translate"}

\* a POST /phi request that reaches the dialogue: the body parses, the phi
\* module imports, the message is a text and is not empty
PhiDialogue ==
  /\ dlg.op = "phi"
  /\ dlg.in.req.json_ok
  /\ dlg.in.ext.phi_import
  /\ IsStr(dlg.in.req.user_input)
  /\ dlg.in.req.user_input # << >>

\* C11: A POST /phi request in a language other than English calls
\* translate_text exactly twice: first, before anything else, with the message
\* towards English; last with the English reply towards the request language.
\* Every inference call lies between the two, carries the English system
\* instruction and, as its user text, what the first translate_text returned
\* (the translation when GoogleTranslator gave one, the message otherwise).
\* GoogleTranslator is called only right after a translate_text call, with
\* that call's text.
C11_TranslateAskTranslate ==
  (PhiDialogue /\ SplitDash(dlg.in.req.language) # "en") =>
    LET lang == SplitDash(dlg.in.req.language)
        input == dlg.in.req.user_input
        ext == dlg.in.ext
        tr == dlg.out.trace
        english == IF ext.translator /\ Strip(input) # << >> /\ ext.trIn.kind = "reply"
                     THEN ext.trIn.text ELSE input IN
    /\ dlg.out.code = 200
    /\ Cardinality(Adapters(tr)) = 2
    /\ \E a1, a2 \in Adapters(tr) :
         /\ a1 = 1
         /\ a1 < a2
         /\ tr[a1] = AdapterEvent(lang, "en", input)
         /\ tr[a2].source = "en"
         /\ tr[a2].target = lang
         /\ \A c \in Chats(tr) :
              /\ a1 < c
              /\ c < a2
              /\ tr[c].system = "en"
              /\ tr[c].user = english
         /\ ext.ollama => Chats(tr) # {}
         /\ \A t \in Translations(tr) :
              \/ t = a1 + 1 /\ tr[t].text = input /\ tr[t].target = "en"
              \/ t = a2 + 1 /\ t = Len(tr) /\ tr[t].text = tr[a2].text /\ tr[t].source = "en"
         /\ dlg.out.response \in {tr[a2].text, ext.trOut.text}

\* C11 witness: a Hindi request whose message and reply GoogleTranslator
\* translates and whose inference succeeds at the second attempt
C11_Witness ==
  /\ PhiDialogue
  /\ dlg.in.req.language = "hi-IN"
  /\ dlg.in.req.user_input = Namaste
  /\ dlg.in.ext.translator
  /\ dlg.in.ext.ollama
  /\ dlg.in.ext.trIn = Reply(Translated)
  /\ dlg.in.ext.trOut = Reply(Translated)
  /\ dlg.in.ext.phi = <<Raised, Reply(ISeeAPerson)>>
  /\ Len(dlg.out.trace) = 7
  /\ dlg.out.response = Translated

\* the labels of the emotion heuristic
EmotionLabels == {"happy", "sad", "surprised", "curious", "neutral"}

\* C12: A POST /phi request with a text message that is not empty and the
\* language en or en-US is answered 200 without any call of translate_text,
\* of GoogleTranslator or of a translating inference prompt; its response
\* text is not empty, its emotion is one of the five labels and its intensity
\* lies between 0 and 1 (0..100 hundredths), whatever the inference does.
C12_EnglishRequest ==
  (PhiDialogue /\ dlg.in.req.language \in {"en", "en-US"}) =>
    /\ dlg.out.code = 200
    /\ Adapters(dlg.out.trace) = {}
    /\ Translations(dlg.out.trace) = {}
    /\ \A c \in Chats(dlg.out.trace) : dlg.out.trace[c].system = "en"
    /\ IsStr(dlg.out.response)
    /\ dlg.out.response # << >>
    /\ dlg.out.emotion \in EmotionLabels
    /\ dlg.out.emotion_intensity \in 0..100

\* C12 witness: an en-US request whose two inference attempts fail, answered
\* with the English apology
C12_Witness ==
  /\ PhiDialogue
  /\ dlg.in.req.language = "en-US"
  /\ dlg.in.req.user_input = Hello
  /\ dlg.in.ext.ollama
  /\ dlg.in.ext.phi = <<Raised, Reply(<<" ">>)>>
  /\ dlg.out.code = 200
  /\ dlg.out.response = ApologyEn
  /\ dlg.out.emotion = "sad"

\* two tags of one language: equal, or the regional and the plain tag of it
SameLanguage(a, b) ==
  \/ a = b
  \/ {a, b} = {"en", "en-US"}
  \/ {a, b} = {"hi", "hi-IN"}

\* C13: translate_text returns its text unchanged, raises nothing and makes
\* no call of GoogleTranslator when the translator is unavailable, or when
\* the text is a str that is empty or only whitespace, or when the text is a
\* str and the source and target tags name one language and are not auto
\* (en-US against en included).
C13_NoOpTranslation ==
  (/\ dlg.op = "translate_text"
   /\ \/ ~dlg.in.available
      \/ /\ IsStr(dlg.in.text)
         /\ \/ Strip(dlg.in.text) = << >>
            \/ SameLanguage(dlg.in.source, dlg.in.target) /\ dlg.in.source # "auto") =>
    /\ ~dlg.out.raised
    /\ dlg.out.ret = dlg.in.text
    /\ Translations(dlg.out.trace) = {}

\* C13 witness: Hello from en-US to en with a translator that would answer
\* with another text
C13_Witness ==
  /\ dlg.op = "translate_text"
  /\ dlg.in.available
  /\ dlg.in.text = Hello
  /\ dlg.in.source = "en-US"
  /\ dlg.in.target = "en"
  /\ dlg.in.out = Reply(Translated)
  /\ dlg.out.ret = Hello
  /\ Len(dlg.out.trace) = 1

\* C14: translate_text never lets an exception reach its caller, and returns
\* the text it was given whenever GoogleTranslator gives no translation.
C14_FailsOpen ==
  dlg.op = "translate_text" =>
    /\ ~dlg.out.raised
    /\ dlg.in.out.kind # "reply" => dlg.out.ret = dlg.in.text

\* the request of a POST /phi or POST /api/translate call has an input error:
\* the body does not parse, or the required text is missing or empty
InputError ==
  \/ dlg.op = "phi" /\ (~dlg.in.req.json_ok \/ dlg.in.req.user_input = << >>)
  \/ dlg.op = "translate" /\ (~dlg.in.req.json_ok \/ dlg.in.req.text = << >>)

\* C15: A POST /phi or POST /api/translate request with an input error is
\* answered 400 with an error body, and no translation or inference call is
\* made for it.
C15_InputErrors400 ==
  InputError =>
    /\ dlg.out.code = 400
    /\ dlg.out.trace = << >>

\* C16: A POST /api/translate request with a text that is not empty, for
\* which GoogleTranslator is called and fails (raises or returns None), is
\* answered 500.
C16_TranslateSurfacesFailure ==
  (/\ dlg.op = "translate"
   /\ dlg.in.req.json_ok
   /\ IsStr(dlg.in.req.text)
   /\ dlg.in.req.text # << >>
   /\ Translations(dlg.out.trace) # {}
   /\ dlg.in.ext.out.kind # "reply") =>
    dlg.out.code = 500

\* C17: The emotion and intensity of a 200 response of POST /phi are those of
\* the emotion heuristic applied to the response text it carries, the reply
\* after the translation back to the request language.
C17_EmotionOfFinalReply ==
  (PhiDialogue /\ dlg.out.code = 200) =>
    LET e == detect_emotion_from_text(dlg.out.response) IN
    /\ dlg.out.emotion = e.emotion
    /\ dlg.out.emotion_intensity = e.intensity

\* the text given to the emotion heuristic holds, whatever its case, one of
\* the words
Mentions(words) ==
  \E w \in words : Contains(Lower(dlg.in.text), w)

\* C18: detect_emotion_from_text answers with the first of happy (0.8),
\* sad (0.7), surprised (0.75), curious (0.7) one of whose words occurs in the
\* text as a substring, whatever the case of the text, and with neutral (0.5)
\* for the empty text and for a text holding none of the words.
C18_EmotionHeuristic ==
  dlg.op = "detect_emotion" =>
    /\ dlg.out.emotion = "happy" <=> Mentions(HappyWords)
    /\ dlg.out.emotion = "sad" <=> ~Mentions(HappyWords) /\ Mentions(SadWords)
    /\ dlg.out.emotion = "surprised" <=>
         ~Mentions(HappyWords \cup SadWords) /\ Mentions(SurprisedWords)
    /\ dlg.out.emotion = "curious" <=>
         ~Mentions(HappyWords \cup SadWords \cup SurprisedWords) /\ Mentions(CuriousWords)
    /\ dlg.out.emotion = "neutral" <=>
         ~Mentions(HappyWords \cup SadWords \cup SurprisedWords \cup CuriousWords)
    /\ dlg.in.text = << >> => dlg.out.emotion = "neutral"
    /\ dlg.out.intensity = CASE dlg.out.emotion = "happy" -> 80
                             [] dlg.out.emotion = "sad" -> 70
                             [] dlg.out.emotion = "surprised" -> 75
                             [] dlg.out.emotion = "curious" -> 70
                             [] OTHER -> 50

\* C18 witness: "Thanks, sorry", with a capital and with words of two
\* categories, is happy at 0.8
C18_Witness ==
  /\ dlg.op = "detect_emotion"
  /\ dlg.in.text = ThanksSorry
  /\ dlg.out.emotion = "happy"
  /\ dlg.out.intensity = 80

\* the characters that end a sentence
Terminators == {".", "!", "?", "DANDA"}

\* the number of sentence terminators of a text
CountTerminators(text) == Cardinality({i \in 1..Len(text) : text[i] \in Terminators})

\* C19: When the first inference attempt of ask_phi gives a reply with more
\* than two sentence terminators, the text ask_phi returns has at most two.
C19_TwoSentenceCap ==
  (/\ dlg.op = "ask_phi"
   /\ dlg.in.available
   /\ IsStr(dlg.in.message)
   /\ dlg.in.outs[1].kind = "reply"
   /\ CountTerminators(dlg.in.outs[1].text) > 2) =>
    CountTerminators(dlg.out.ret) <= 2

\* C20: When the camera gives no item and no error, the response text is the
\* clear phrase of LANGUAGE_PHRASES for the requested language and
\* objects_count is 0, in the result of vision_assistant_cycle and in every
\* clear result waiting in the queue of a session.
C20_ClearPhrase ==
  /\ (/\ dlg.op = "vision_cycle"
      /\ ~dlg.in.payload.image_data
      /\ dlg.in.payload.user_input = << >>
      /\ dlg.in.scene = SceneClear) =>
       /\ dlg.out.response = PhrasesFor(SplitDash(dlg.in.payload.language)).clear
       /\ dlg.out.objects_count = 0
  /\ \A o \in Objs : \A i \in 1..Len(queue[o]) :
       queue[o][i].status = "clear" =>
         /\ queue[o][i].response = PhrasesFor(SplitDash(language[o])).clear
         /\ queue[o][i].objects_count = 0

\* the session object o is the one registered under its identifier
RegisteredUnderOwnId(o) ==
  /\ sid[o] \in DOMAIN vision_sessions
  /\ vision_sessions[sid[o]] = o

\* C21: Every session object that was made and whose active flag is true is
\* the object the registry holds under its identifier, so no identifier has
\* two active session objects.
C21_NoLostRegistryUpdate ==
  /\ \A o \in Objs : (o <= nobj /\ active[o]) => RegisteredUnderOwnId(o)
  /\ \A o1, o2 \in Objs :
       (o1 <= nobj /\ o2 <= nobj /\ active[o1] /\ active[o2] /\ sid[o1] = sid[o2]) => o1 = o2

\* C22: Once the active flag of a session is false, its worker starts no
\* cycle it was not already in, builds no result except that of the cycle it
\* is in (so it enqueues at most one more), and its thread ends.
C22_CooperativeCancel ==
  /\ [][\A o \in Objs :
         (o <= nobj /\ ~active[o]) =>
           /\ wpc[o] # "cycle" => (wpc'[o] # "cycle" /\ produced'[o] = produced[o])
           /\ wpc[o] = "cycle" => produced'[o] <= produced[o] + 1
           /\ wpc[o] \in {"sleep", "while", "ended"} => queue'[o] \in {queue[o], << >>}
           /\ Len(queue'[o]) <= Len(queue[o]) + 1]_vars
  /\ \A o \in Objs : (wpc[o] \notin {"unborn", "ended"} /\ ~active[o]) ~> (wpc[o] = "ended")

\* C22 witness: a session whose flag went false while its worker was in a
\* cycle; the worker holds the result of that cycle and is about to enqueue it
C22_Witness ==
  \E o \in Objs :
    /\ o <= nobj
    /\ ~active[o]
    /\ wpc[o] = "put"
    /\ wres[o].status = "clear"

\* C23: A worker thread ends only when the active flag of its session is
\* false: the step that ends it is taken at the loop test with the flag
\* false, and a cycle that raised is followed by the sleep and by the loop
\* test, which starts another cycle while the flag is true.
C23_FailureKeepsWorker ==
  /\ \A o \in Objs : wpc[o] = "ended" => ~active[o]
  /\ [][\A o \in Objs :
         /\ (wpc[o] # "ended" /\ wpc'[o] = "ended") => (wpc[o] = "while" /\ ~active[o])
         /\ (wpc[o] = "cycle" /\ wpc'[o] # "cycle") => wpc'[o] \in {"full", "sleep"}
         /\ (wpc[o] = "sleep" /\ wpc'[o] # "sleep") => wpc'[o] = "while"
         /\ (wpc[o] = "while" /\ wpc'[o] # "while" /\ active[o]) => wpc'[o] = "cycle"]_vars

\* C23 witness: the worker of an active session sleeps after a cycle that
\* raised, having built no result yet
C23_Witness ==
  \E o \in Objs :
    /\ active[o]
    /\ wpc[o] = "sleep"
    /\ produced[o] = 0

\* C24: Every response is one of the results of its request: a poll answers
\* with a queued result, no_data or no_session, a stop with stopped or
\* not_found, a start with started, a health request with healthy; none is
\* the 500 of an exception that left the handler.
C24_NoUnhandledError ==
  \A t \in Reqs :
    resp[t] # NoResp =>
      /\ resp[t].code # 500
      /\ resp[t].op = "poll" =>
           resp[t].status \in {"detection", "clear", "error", "no_data", "no_session"}
      /\ resp[t].op = "stop" => resp[t].status \in {"stopped", "not_found"}
      /\ resp[t].op = "start" => resp[t].status = "started"
      /\ resp[t].op = "health" => resp[t].status = "healthy"

\* C25: The sweep stops and removes only sessions that have been idle for
\* more than 300 seconds at that moment: a step of the sweep that clears the
\* active flag of a session, or that removes its registry entry, finds the
\* last activity of that session more than 300 seconds old.
C25_SweepSparesFresh ==
  [][\A t \in Reqs, o \in Objs :
       /\ (pc[t] = "sweep_stop" /\ pc'[t] # "sweep_stop" /\ active[o] /\ ~active'[o]) =>
            now - last_activity[o] > IdleThreshold
       /\ (/\ pc[t] = "sweep_del"
           /\ pc'[t] # "sweep_del"
           /\ \E k \in DOMAIN vision_sessions :
                k \notin DOMAIN vision_sessions' /\ vision_sessions[k] = o) =>
            now - last_activity[o] > IdleThreshold]_vars

\* C26: The queue of every session holds at most 5 results in every state,
\* however many results its worker has built since the last poll.
C26_QueueBound ==
  \A o \in Objs : Len(queue[o]) <= 5

\* C26 witness: a worker has built more than 5 results, none was polled, and
\* the queue holds 5
C26_Witness ==
  \E o \in Objs :
    /\ produced[o] > 5
    /\ lastDelivered[o] = 0
    /\ Len(queue[o]) = 5

\* C27: A result a poll returns was built by the worker of the session that
\* is registered under the polled identifier when the poll answers, so after
\* a restart never by the worker of a session the identifier had before.
C27_NoStaleResults ==
  \A t \in Reqs :
    (resp[t].op = "poll" /\ resp[t].code = 200 /\ resp[t].status # "no_data") =>
      /\ resp[t].id \in DOMAIN vision_sessions
      /\ vision_sessions[resp[t].id] = resp[t].body.src
      /\ resp[t].obj = resp[t].body.src

\* C27 witness: a poll returns a result of the second session of an
\* identifier while the worker of the first, stopped by the restart, is still
\* in its last cycle
C27_Witness ==
  \E t \in Reqs :
    /\ resp[t].op = "poll"
    /\ resp[t].code = 200
    /\ resp[t].status # "no_data"
    /\ resp[t].body.src = 2
    /\ sid[1] = sid[2]
    /\ ~active[1]
    /\ wpc[1] \in {"cycle", "full", "put"}

\* C28: The active flag of a session object that was made never goes from
\* false to true; a session object that was made and is not in the registry
\* never enters it; and whenever the registry gets a new or changed entry,
\* the object entered is one made in that step, with its flag true.
C28_StoppedIsTerminal ==
  /\ [][\A o \in Objs : (o <= nobj /\ ~active[o]) => ~active'[o]]_vars
  /\ [][\A o \in Objs : (o <= nobj /\ ~Registered(o)) => ~Registered(o)']_vars
  /\ [][\A k \in DOMAIN vision_sessions' :
         (k \notin DOMAIN vision_sessions \/ vision_sessions'[k] # vision_sessions[k]) =>
           /\ nobj' = nobj + 1
           /\ vision_sessions'[k] = nobj'
           /\ active'[nobj']]_vars

\* C28 witness: an identifier was started again; its first session object is
\* stopped and out of the registry, its second is registered and active
C28_Witness ==
  /\ nobj = 2
  /\ sid[1] = sid[2]
  /\ ~active[1]
  /\ ~Registered(1)
  /\ active[2]
  /\ Registered(2)

\* the attributes of a Detection Result
ResultAttributes ==
  {"status", "timestamp", "response", "detections", "objects_count", "emotion",
   "emotion_intensity"}

\* C29: Every result in a queue has all the attributes of a Detection
\* Result, a status among detection, clear and error, an objects_count equal
\* to the length of its detections list, at most 5 and 0 unless the status is
\* detection, an emotion label and an intensity between 0 and 1.
C29_ResultShape ==
  \A o \in Objs : \A i \in 1..Len(queue[o]) :
    /\ ResultAttributes \subseteq DOMAIN queue[o][i]
    /\ queue[o][i].status \in {"detection", "clear", "error"}
    /\ queue[o][i].objects_count = Len(queue[o][i].detections)
    /\ queue[o][i].objects_count <= 5
    /\ queue[o][i].status # "detection" => queue[o][i].objects_count = 0
    /\ queue[o][i].emotion_intensity \in 0..100

\* C30: The emotion and intensity of every detection result in a queue are
\* those the heuristic of vision.py gives for its response text.
C30_VisionHeuristic ==
  \A o \in Objs : \A i \in 1..Len(queue[o]) :
    queue[o][i].status = "detection" =>
      /\ queue[o][i].emotion = vision_detect_emotion_from_text(queue[o][i].response).emotion
      /\ queue[o][i].emotion_intensity =
           vision_detect_emotion_from_text(queue[o][i].response).intensity

\* C31: The ranked list of create_natural_description has the items of
\* higher label priority first (person 10, car and truck 8, dog 7, chair 6,
\* others 3) and, among items of equal priority, the larger size ratio first.
C31_RankedByPriorityThenSize ==
  dlg.op = "describe" =>
    \A i, j \in 1..Len(dlg.out.items_sorted) :
      i < j =>
        \/ Priority(dlg.out.items_sorted[i].label) > Priority(dlg.out.items_sorted[j].label)
        \/ /\ Priority(dlg.out.items_sorted[i].label) = Priority(dlg.out.items_sorted[j].label)
           /\ dlg.out.items_sorted[i].size_ratio >= dlg.out.items_sorted[j].size_ratio

\* the labels among those of the items that a description names
Named(description, items) ==
  {items[i].label : i \in {n \in 1..Len(items) : Contains(description, items[n].label)}}

\* the places of a description where a label stands
Places(description, label) ==
  {i \in 1..Len(description) : StartsAt(description, i, label)}

\* C32: The description of create_natural_description names no label twice
\* and at most two labels; it names exactly two different labels whenever
\* the items have at least two distinct labels, and one when they have one.
C32_TwoDistinctLabels ==
  dlg.op = "describe" =>
    LET labels == {dlg.in.items[i].label : i \in 1..Len(dlg.in.items)}
        named == Named(dlg.out.description, dlg.in.items) IN
    /\ \A l \in labels : Cardinality(Places(dlg.out.description, l)) <= 1
    /\ Cardinality(named) <= 2
    /\ Cardinality(labels) >= 2 => Cardinality(named) = 2
    /\ Cardinality(labels) = 1 => Cardinality(named) = 1

\* C33: detect_objects_from_camera never raises; when the camera cannot be
\* opened by any backend, when the frame cannot be read, or when the detector
\* returns no result object, it returns no items and a non-empty error
\* message; it returns no error message only when the detector ran and gave
\* a result.
C33_ErrorsAreReported ==
  dlg.op = "detect_objects" =>
    LET opened == dlg.in.model /\ dlg.in.opens # 0
        captured == opened /\ dlg.in.frame = "frame" IN
    /\ ~dlg.out.raised
    /\ (dlg.in.model /\ (~opened \/ ~captured \/ dlg.in.predict = "no results")) =>
         dlg.out.items = << >> /\ dlg.out.error # << >>
    /\ dlg.out.error = << >> => captured /\ dlg.in.predict \in {"no boxes", "boxes"}
====
